---- MODULE Spec2Model ----
(***************************************************************************)
(* PowerPoint conversion server (src/server.js).                           *)
(*                                                                         *)
(* The module models the /convert request handler as a state machine: the  *)
(* renderer probe, the three conversion strategies (paginate-then-         *)
(* rasterize, direct export, placeholder fill), the two-step store write   *)
(* with read-back verification, and the update of the in-memory cache and  *)
(* of the topic index.  One step of the machine is one run-to-completion   *)
(* slice of the JavaScript handler: the code between two points at which   *)
(* the handler waits for a child process, a directory listing or the       *)
(* store.                                                                  *)
(***************************************************************************)
EXTENDS Integers, Sequences, FiniteSets, TLC

\* ------------------------------------------------------------------ bounds
\* Largest page count pdfinfo reports for the intermediate PDF.
MaxPages == 2
\* Largest number of .jpg files the direct export leaves in the output dir.
MaxImages == 2
\* Placeholder writes may fail for any set of slide numbers in 1..MaxWriteFail.
MaxWriteFail == 2

\* ------------------------------------------------------- program constants
\* server.js:433  const placeholderCount = 5;
placeholderCount == 5
\* server.js:769 and server.js:851  const estimatedSlideCount = 23;
estimatedSlideCount == 23

\* ------------------------------------------------------------ value spaces
\* The uuid of the converting request, and the uuid of a record that is
\* already in the catalog when the request arrives.
NewId == "p1"
OldId == "p2"
Ids == {NewId, OldId}
None == [id |-> "none"]

\* Topic labels a request body may carry.
TopicInputs == {<< >>, <<"AI">>, <<"AI", "ai">>, <<"ML", "AI">>}

\* String.prototype.toLowerCase on the labels in use.
toLowerCase(t) ==
  CASE t = "AI" -> "ai"
    [] t = "ML" -> "ml"
    [] OTHER -> t

WriteFailSets == SUBSET (1 .. MaxWriteFail)

\* Outcome of processing one PDF page (server.js:583-619):
\*   ok        pdftoppm wrote the image, pdftotext returned text
\*   emptyText pdftoppm wrote the image, pdftotext returned only blanks
\*   textErr   pdftoppm wrote the image, pdftotext raised
\*   noFile    pdftoppm returned but the image file is not there
\*   rasterErr pdftoppm raised
\*   copyErr   the image is there but copying it into place raised
PageOutcomes == {"ok", "emptyText", "textErr", "noFile", "rasterErr", "copyErr"}

\* --------------------------------------------------- files, urls and texts
\* A file name inside public/slides/<id>/.
SlideFile(n)  == [base |-> "slide", n |-> n]     \* `slide-${n}.jpg`
NativeFile(k) == [base |-> "native", n |-> k]    \* renderer's own k-th .jpg
PdfFile       == [base |-> "pdf", n |-> 0]       \* the intermediate .pdf
TempDir       == [base |-> "temp", n |-> 0]      \* the temp/ directory

\* `/slides/${presentationId}/${file}`
Url(id, file) == [id |-> id, file |-> file]
\* `/slides/${presentationId}/slide-${n}.jpg`
SlideUrl(id, n) == Url(id, SlideFile(n))

\* What a file holds.
RealImage(k) == [kind |-> "real", num |-> k, wording |-> "image"]
OtherFile    == [kind |-> "other", num |-> 0, wording |-> ""]

\* Slide texts.
PlainText(n)       == [kind |-> "plain", n |-> n]        \* `Slide ${n}`
PlaceholderText(n) == [kind |-> "placeholder", n |-> n]  \* `Slide ${n} (Placeholder)`
ErrorText(n)       == [kind |-> "error", n |-> n]        \* `Slide ${n} (Error Placeholder)`
ExtractedText(n)   == [kind |-> "extracted", n |-> n]    \* pdftotext output of page n

\* Text written by createPlaceholderImage: names the slide number and title.
GenericContent(n) == [kind |-> "generic", num |-> n, wording |-> "LibreOffice is not installed"]

\* Text written by createDistinctPlaceholder: wording chosen by parity.
DistinctContent(n) ==
  [kind |-> "distinct", num |-> n,
   wording |-> IF n % 2 = 0 THEN "EVEN NUMBER" ELSE "ODD NUMBER"]

\* A directory is a function from the names of its files to what they hold.
EmptyDir == << >>
WriteFile(dir, file, content) == (file :> content) @@ dir
RemoveFile(dir, file) == [f \in (DOMAIN dir) \ {file} |-> dir[f]]

\* createPlaceholderImage(outputPath, slideNumber, title): fs.writeFileSync
\* inside try/catch; a failed write leaves the directory as it was.
createPlaceholderImage(dir, file, slideNumber, writeOk) ==
  IF writeOk THEN WriteFile(dir, file, GenericContent(slideNumber)) ELSE dir

\* createDistinctPlaceholder(outputPath, slideNumber, title)
createDistinctPlaceholder(dir, file, slideNumber, writeOk) ==
  IF writeOk THEN WriteFile(dir, file, DistinctContent(slideNumber)) ELSE dir

\* --------------------------------------------------------------- variables
VARIABLES
  store,                \* the Presentation collection: id -> document or None
  presentations,        \* in-memory cache: id -> object
  presentationsByTopic, \* topic index: lower-cased topic -> list of ids
  conv,                 \* the /convert request: position, locals, disk, response
  userPresentationHistory, \* user id -> list of the ids the user has seen
  handlers,             \* the other request handlers in flight, and their last answer
  observed,             \* bookkeeping of what happened before what (not program state)
  saves                 \* saveToDatabase called twice on one collection

vars == <<store, presentations, presentationsByTopic, conv,
          userPresentationHistory, handlers, observed, saves>>

\* The slide data a strategy has assembled (the locals renamedImageUrls /
\* placeholderUrls and slideTexts, the output directory, and for every slide
\* what the strategy put or tried to put behind its url).
EmptyWork == [urls |-> << >>, texts |-> << >>, made |-> << >>, dir |-> EmptyDir]

PushSlide(w, url, text, content, dir) ==
  [urls |-> Append(w.urls, url), texts |-> Append(w.texts, text),
   made |-> Append(w.made, content), dir |-> dir]


\* ------------------------------------------------------------- strategies
\* Then(v, F) is F(v) with v evaluated once, the way a loop body sees the
\* value its predecessor left behind.
Then(v, F(_)) == CHOOSE y \in {F(x) : x \in {v}} : TRUE

\* server.js:437-442, one iteration of the renderer-absent placeholder loop.
AbsentSlide(w, id, n, writeOk) ==
  PushSlide(w, SlideUrl(id, n), PlaceholderText(n), GenericContent(n),
            createPlaceholderImage(w.dir, SlideFile(n), n, writeOk))

RECURSIVE AbsentLoop(_, _, _, _)
AbsentLoop(w, id, n, failW) ==
  IF n > placeholderCount THEN w
  ELSE Then(AbsentSlide(w, id, n, n \notin failW),
            LAMBDA x : AbsentLoop(x, id, n + 1, failW))

\* Variant of AbsentResult with a defect: the record is not flagged.
AbsentResultNotFlagged(w) ==
  [slides |-> w.urls, slideCount |-> placeholderCount, slideTexts |-> w.texts,
   isPlaceholder |-> FALSE, made |-> w.made, dir |-> w.dir]

\* server.js:433-448, the record fields set by the renderer-absent path.
AbsentResult(w) ==
  [slides |-> w.urls, slideCount |-> placeholderCount, slideTexts |-> w.texts,
   isPlaceholder |-> TRUE, made |-> w.made, dir |-> w.dir]

\* Variants of PageSlide with a defect.
\* A page whose text extraction raises gets an image but no text.
PageSlideDropsText(w, id, pageNum, outcome, writeOk) ==
  CASE outcome \in {"ok", "emptyText"} ->
         PushSlide(w, SlideUrl(id, pageNum),
                   IF outcome = "ok" THEN ExtractedText(pageNum) ELSE PlainText(pageNum),
                   RealImage(pageNum),
                   WriteFile(w.dir, SlideFile(pageNum), RealImage(pageNum)))
    [] outcome = "textErr" ->
         [w EXCEPT !.urls = Append(@, SlideUrl(id, pageNum)),
                   !.made = Append(@, RealImage(pageNum)),
                   !.dir = WriteFile(w.dir, SlideFile(pageNum), RealImage(pageNum))]
    [] outcome = "noFile" ->
         PushSlide(w, SlideUrl(id, pageNum), PlaceholderText(pageNum),
                   DistinctContent(pageNum),
                   createDistinctPlaceholder(w.dir, SlideFile(pageNum), pageNum, writeOk))
    [] OTHER ->
         PushSlide(w, SlideUrl(id, pageNum), ErrorText(pageNum),
                   DistinctContent(pageNum),
                   createDistinctPlaceholder(w.dir, SlideFile(pageNum), pageNum, writeOk))

\* A page whose rasterization raises is left out.
PageSlideSkipsFailed(w, id, pageNum, outcome, writeOk) ==
  CASE outcome \in {"ok", "emptyText", "textErr"} ->
         PushSlide(w, SlideUrl(id, pageNum),
                   IF outcome = "ok" THEN ExtractedText(pageNum) ELSE PlainText(pageNum),
                   RealImage(pageNum),
                   WriteFile(w.dir, SlideFile(pageNum), RealImage(pageNum)))
    [] outcome = "noFile" ->
         PushSlide(w, SlideUrl(id, pageNum), PlaceholderText(pageNum),
                   DistinctContent(pageNum),
                   createDistinctPlaceholder(w.dir, SlideFile(pageNum), pageNum, writeOk))
    [] OTHER -> w

\* A page whose rasterization raises gets the generic placeholder.
PageSlideGenericOnRaise(w, id, pageNum, outcome, writeOk) ==
  CASE outcome \in {"ok", "emptyText", "textErr"} ->
         PushSlide(w, SlideUrl(id, pageNum),
                   IF outcome = "ok" THEN ExtractedText(pageNum) ELSE PlainText(pageNum),
                   RealImage(pageNum),
                   WriteFile(w.dir, SlideFile(pageNum), RealImage(pageNum)))
    [] outcome = "noFile" ->
         PushSlide(w, SlideUrl(id, pageNum), PlaceholderText(pageNum),
                   DistinctContent(pageNum),
                   createDistinctPlaceholder(w.dir, SlideFile(pageNum), pageNum, writeOk))
    [] OTHER ->
         PushSlide(w, SlideUrl(id, pageNum), ErrorText(pageNum),
                   GenericContent(pageNum),
                   createPlaceholderImage(w.dir, SlideFile(pageNum), pageNum, writeOk))

\* A raised text extraction is caught by the handler of the rasterization:
\* the url is pushed a second time and the image is overwritten.
PageSlideTextErrorEscapes(w, id, pageNum, outcome, writeOk) ==
  CASE outcome \in {"ok", "emptyText"} ->
         PushSlide(w, SlideUrl(id, pageNum),
                   IF outcome = "ok" THEN ExtractedText(pageNum) ELSE PlainText(pageNum),
                   RealImage(pageNum),
                   WriteFile(w.dir, SlideFile(pageNum), RealImage(pageNum)))
    [] outcome = "textErr" ->
         PushSlide([w EXCEPT !.urls = Append(@, SlideUrl(id, pageNum))],
                   SlideUrl(id, pageNum), ErrorText(pageNum),
                   DistinctContent(pageNum),
                   createDistinctPlaceholder(
                     WriteFile(w.dir, SlideFile(pageNum), RealImage(pageNum)),
                     SlideFile(pageNum), pageNum, writeOk))
    [] outcome = "noFile" ->
         PushSlide(w, SlideUrl(id, pageNum), PlaceholderText(pageNum),
                   DistinctContent(pageNum),
                   createDistinctPlaceholder(w.dir, SlideFile(pageNum), pageNum, writeOk))
    [] OTHER ->
         PushSlide(w, SlideUrl(id, pageNum), ErrorText(pageNum),
                   DistinctContent(pageNum),
                   createDistinctPlaceholder(w.dir, SlideFile(pageNum), pageNum, writeOk))

\* server.js:574-620, one iteration of the page loop.
PageSlide(w, id, pageNum, outcome, writeOk) ==
  CASE outcome \in {"ok", "emptyText", "textErr"} ->
         \* fs.copyFileSync(tempFile, finalFile), then the text of the page
         PushSlide(w, SlideUrl(id, pageNum),
                   IF outcome = "ok" THEN ExtractedText(pageNum) ELSE PlainText(pageNum),
                   RealImage(pageNum),
                   WriteFile(w.dir, SlideFile(pageNum), RealImage(pageNum)))
    [] outcome = "noFile" ->
         PushSlide(w, SlideUrl(id, pageNum), PlaceholderText(pageNum),
                   DistinctContent(pageNum),
                   createDistinctPlaceholder(w.dir, SlideFile(pageNum), pageNum, writeOk))
    [] OTHER ->
         \* catch (extractError): pdftoppm or copyFileSync raised
         PushSlide(w, SlideUrl(id, pageNum), ErrorText(pageNum),
                   DistinctContent(pageNum),
                   createDistinctPlaceholder(w.dir, SlideFile(pageNum), pageNum, writeOk))

RECURSIVE PageLoop(_, _, _, _, _, _)
PageLoop(w, id, pageNum, pageCount, outcomes, failW) ==
  IF pageNum > pageCount THEN w
  ELSE Then(PageSlide(w, id, pageNum, outcomes[pageNum], pageNum \notin failW),
            LAMBDA x : PageLoop(x, id, pageNum + 1, pageCount, outcomes, failW))

\* server.js:625-628
PdfResult(w) ==
  [slides |-> w.urls, slideCount |-> Len(w.urls), slideTexts |-> w.texts,
   isPlaceholder |-> FALSE, made |-> w.made, dir |-> w.dir]

\* server.js:745-761, one iteration of the rename loop (index is 1-based here).
RenameSlide(w, id, index, renameOk) ==
  IF renameOk
  THEN PushSlide(w, SlideUrl(id, index), PlainText(index), w.dir[NativeFile(index)],
                 WriteFile(RemoveFile(w.dir, NativeFile(index)), SlideFile(index),
                           w.dir[NativeFile(index)]))
  ELSE \* Use the original file as fallback
       PushSlide(w, Url(id, NativeFile(index)), PlainText(index),
                 w.dir[NativeFile(index)], w.dir)

RECURSIVE RenameLoop(_, _, _, _, _)
RenameLoop(w, id, index, count, renameFail) ==
  IF index > count THEN w
  ELSE Then(RenameSlide(w, id, index, index \notin renameFail),
            LAMBDA x : RenameLoop(x, id, index + 1, count, renameFail))

\* Variant of PadSlide with a defect: a slide whose placeholder could not be
\* written is left out.
PadSlideSkipsFailedWrite(w, id, slideNumber, writeOk) ==
  IF writeOk
  THEN PushSlide(w, SlideUrl(id, slideNumber), PlaceholderText(slideNumber),
                 DistinctContent(slideNumber),
                 createDistinctPlaceholder(w.dir, SlideFile(slideNumber), slideNumber, writeOk))
  ELSE w

\* server.js:773-786, one iteration of the single-image padding loop.
\* createDistinctPlaceholder reports a failed write by its return value, which
\* the loop ignores; the catch clause of the loop is never entered.
PadSlide(w, id, slideNumber, writeOk) ==
  PushSlide(w, SlideUrl(id, slideNumber), PlaceholderText(slideNumber),
            DistinctContent(slideNumber),
            createDistinctPlaceholder(w.dir, SlideFile(slideNumber), slideNumber, writeOk))

RECURSIVE PadLoop(_, _, _, _)
PadLoop(w, id, slideNumber, failW) ==
  IF slideNumber > estimatedSlideCount THEN w
  ELSE Then(PadSlide(w, id, slideNumber, slideNumber \notin failW),
            LAMBDA x : PadLoop(x, id, slideNumber + 1, failW))

\* server.js:765-787
PadIfSingle(w, id, imageCount, failW) ==
  IF imageCount = 1 THEN PadLoop(w, id, 2, failW) ELSE w

\* server.js:790-793
DirectResult(w) ==
  [slides |-> w.urls, slideCount |-> Len(w.urls), slideTexts |-> w.texts,
   isPlaceholder |-> FALSE, made |-> w.made, dir |-> w.dir]

\* Variant of FallbackSlide with a defect: the generic placeholder is used.
FallbackSlideGeneric(w, id, slideNumber, writeOk) ==
  PushSlide(w, SlideUrl(id, slideNumber), PlaceholderText(slideNumber),
            GenericContent(slideNumber),
            createPlaceholderImage(w.dir, SlideFile(slideNumber), slideNumber, writeOk))

\* server.js:855-861, one iteration of the terminal placeholder loop.
FallbackSlide(w, id, slideNumber, writeOk) ==
  PushSlide(w, SlideUrl(id, slideNumber), PlaceholderText(slideNumber),
            DistinctContent(slideNumber),
            createDistinctPlaceholder(w.dir, SlideFile(slideNumber), slideNumber, writeOk))

RECURSIVE FallbackLoop(_, _, _, _)
FallbackLoop(w, id, slideNumber, failW) ==
  IF slideNumber > estimatedSlideCount THEN w
  ELSE Then(FallbackSlide(w, id, slideNumber, slideNumber \notin failW),
            LAMBDA x : FallbackLoop(x, id, slideNumber + 1, failW))

\* server.js:863-867
FallbackResult(w) ==
  [slides |-> w.urls, slideCount |-> estimatedSlideCount, slideTexts |-> w.texts,
   isPlaceholder |-> TRUE, made |-> w.made, dir |-> w.dir]


\* ------------------------------------------------------ store, cache, index
\* The descriptive metadata a /convert request carries (server.js:382-387).
GivenTitle == "T0"
GivenSummary == "S0"
GivenAuthor == "A0"

\* server.js:394-405 with the slide fields of the strategy that ran: the
\* object handed to saveToDatabase and, as toObject(), returned by it.
Document(id, c) ==
  [id |-> id, title |-> GivenTitle, summary |-> GivenSummary,
   author |-> GivenAuthor, topics |-> c.topics, slides |-> c.slides,
   slideTexts |-> c.slideTexts, slideCount |-> c.slideCount,
   isPlaceholder |-> c.isPlaceholder, viewCount |-> 0, isDeleted |-> FALSE]

\* server.js:465-471 (and 648-654, 810-816, 884-890): topics.forEach
RECURSIVE IndexTopics(_, _, _, _)
IndexTopics(index, topics, i, id) ==
  IF i > Len(topics) THEN index
  ELSE LET topic == toLowerCase(topics[i])
           list  == IF topic \in DOMAIN index THEN index[topic] ELSE << >>
       IN IndexTopics((topic :> Append(list, id)) @@ index, topics, i + 1, id)

ErrorResponse(status) ==
  [status |-> status, slideCount |-> 0, slides |-> << >>, slideTexts |-> << >>,
   flag |-> "error"]

\* Variant of SuccessResponse with a defect: the response reports the
\* estimated slide count whatever the record holds.
SuccessResponseEstimated(c) ==
  [status |-> 200, slideCount |-> estimatedSlideCount, slides |-> c.slides,
   slideTexts |-> c.slideTexts,
   flag |-> CASE c.path = "absent" -> "placeholders_created"
              [] c.path = "terminal" -> "fallback_placeholders"
              [] OTHER -> "none"]

\* server.js:476-486, 659-667, 821-829, 895-905: the body of res.json
SuccessResponse(c) ==
  [status |-> 200, slideCount |-> c.slideCount, slides |-> c.slides,
   slideTexts |-> c.slideTexts,
   flag |-> CASE c.path = "absent" -> "placeholders_created"
              [] c.path = "terminal" -> "fallback_placeholders"
              [] OTHER -> "none"]

\* Variants of Acknowledge with a defect, used to test the properties below.
\* The cache and the index are filled as soon as the save returned.
AcknowledgeCacheFirst(c, id, doc, saveReturned, verified, cache, index) ==
  IF saveReturned
  THEN [cache |-> (id :> doc) @@ cache,
        index |-> IndexTopics(index, c.topics, 1, id),
        resp  |-> IF verified THEN SuccessResponse(c) ELSE ErrorResponse(500),
        events |-> <<"cache", "index", IF verified THEN "respond200" ELSE "respond500">>]
  ELSE [cache |-> cache, index |-> index, resp |-> ErrorResponse(500),
        events |-> <<"respond500">>]

\* A store failure is answered like a success.
AcknowledgeSilentSuccess(c, id, doc, saveReturned, verified, cache, index) ==
  IF saveReturned /\ verified
  THEN [cache |-> (id :> doc) @@ cache,
        index |-> IndexTopics(index, c.topics, 1, id),
        resp  |-> SuccessResponse(c),
        events |-> <<"cache", "index", "respond200">>]
  ELSE [cache |-> cache, index |-> index, resp |-> SuccessResponse(c),
        events |-> <<"respond200">>]

\* A placeholder result is answered with an error.
AcknowledgeRejectsPlaceholder(c, id, doc, saveReturned, verified, cache, index) ==
  IF saveReturned /\ verified /\ ~c.isPlaceholder
  THEN [cache |-> (id :> doc) @@ cache,
        index |-> IndexTopics(index, c.topics, 1, id),
        resp  |-> SuccessResponse(c),
        events |-> <<"cache", "index", "respond200">>]
  ELSE [cache |-> cache, index |-> index, resp |-> ErrorResponse(500),
        events |-> <<"respond500">>]

\* server.js:451-496 (and 634-677, 796-839, 870-915): what the handler does
\* once the outcome of saveToDatabase and verifyDatabaseSave is known.  The
\* result carries the new cache, the new topic index, the response and the
\* events in the order the code performs them.
Acknowledge(c, id, doc, saveReturned, verified, cache, index) ==
  IF saveReturned /\ verified
  THEN [cache |-> (id :> doc) @@ cache,
        index |-> IndexTopics(index, c.topics, 1, id),
        resp  |-> SuccessResponse(c),
        events |-> <<"cache", "index", "respond200">>]
  ELSE \* catch (dbError)
       [cache |-> cache, index |-> index,
        resp  |-> ErrorResponse(500),
        events |-> <<"respond500">>]

\* server.js:679-690: fs.rmSync(tempDir), fs.rmSync(pdfPath) in one try block.
CleanupDir(c, cleanup) ==
  IF c.path # "pdf" THEN c.dir
  ELSE CASE cleanup = "tempThrew" -> c.dir
         [] cleanup = "pdfThrew"  -> RemoveFile(c.dir, TempDir)
         [] OTHER -> RemoveFile(RemoveFile(c.dir, TempDir), PdfFile)

CleanupOutcomes == {"ok", "tempThrew", "pdfThrew"}

\* ------------------------------------------------------------------- state
Requests == {NewId}

IdleRequest ==
  [pc |-> "idle", topics |-> << >>, path |-> "none",
   slides |-> << >>, slideTexts |-> << >>, slideCount |-> 0,
   isPlaceholder |-> FALSE, made |-> << >>, dir |-> EmptyDir,
   existing |-> FALSE, saved |-> None, unlinked |-> FALSE,
   probe |-> "unknown", pageCount |-> 0, outcomes |-> << >>, imageCount |-> 0,
   resp |-> << >>, log |-> << >>,
   before |-> [cache |-> << >>, index |-> << >>]]

\* A record converted earlier, as loadPresentationsFromDatabase (146-173)
\* leaves it in the store, the cache and the topic index at startup.
OldDocument ==
  [id |-> OldId, title |-> GivenTitle, summary |-> GivenSummary,
   author |-> GivenAuthor, topics |-> <<"AI">>, slides |-> <<SlideUrl(OldId, 1)>>,
   slideTexts |-> <<ExtractedText(1)>>, slideCount |-> 1,
   isPlaceholder |-> FALSE, viewCount |-> 0, isDeleted |-> FALSE]

\* The handler invocations that can be in flight next to the conversion.
Handlers == {"h1", "h2"}

\* req.query.userId when the request carries none.
NoUser == "none"

\* A handler invocation: the operation and its parameters, the position in
\* the handler and what the store returned to it.  `late` and `immediate`
\* record when the request arrived (see Begin).
IdleHandler ==
  [pc |-> "idle", op |-> "none", id |-> "none", user |-> NoUser, q |-> "",
   body |-> [title |-> << >>, summary |-> << >>, author |-> << >>, topics |-> << >>],
   found |-> << >>, failed |-> FALSE, late |-> FALSE, immediate |-> FALSE]

\* The answer sent by the step that led to the current state, if it sent one.
NoAnswer ==
  [op |-> "none", id |-> "none", user |-> NoUser, q |-> "", status |-> 0,
   body |-> << >>, note |-> "", late |-> FALSE, immediate |-> FALSE]

\* No saveToDatabase call has been made on the collection `docs`.
IdleSaves ==
  [docs |-> << >>, payload |-> None,
   call |-> [k \in 1 .. 2 |-> [pc |-> "idle", existing |-> FALSE, returned |-> None]]]

Quiet ==
  /\ userPresentationHistory = << >>
  /\ handlers = [h \in Handlers |-> IdleHandler]
  /\ observed = [quietDeleted |-> {}, afterConv |-> FALSE, answer |-> NoAnswer]

Init ==
  /\ Quiet
  /\ saves = IdleSaves
  /\ conv = [r \in Requests |-> IdleRequest]
  /\ \E loaded \in BOOLEAN :
       /\ store = [i \in Ids |-> IF loaded /\ i = OldId THEN OldDocument ELSE None]
       /\ presentations = IF loaded THEN (OldId :> OldDocument) ELSE << >>
       /\ presentationsByTopic = IF loaded THEN ("ai" :> <<OldId>>) ELSE << >>

WithResult(c, res, path) ==
  [c EXCEPT !.slides = res.slides, !.slideTexts = res.slideTexts,
            !.slideCount = res.slideCount, !.isPlaceholder = res.isPlaceholder,
            !.made = res.made, !.dir = res.dir, !.path = path,
            !.pc = "saveFind", !.log = Append(@, path)]


\* ----------------------------------------------------------------- actions
\* The /convert handler reads and writes neither the viewing history nor
\* the state of another handler.
SetConv(r, c) ==
  /\ conv' = [conv EXCEPT ![r] = c]
  /\ UNCHANGED <<userPresentationHistory, handlers, observed, saves>>

\* server.js:413-429: the probe, the install attempt and the second probe.
RendererAvailable(installed, installOk, recheck) ==
  installed \/ (installOk /\ recheck)

\* server.js:522-546, 553-560, 693-700: does the PDF route reach the page loop?
PdfRouteUsable(readdirErr, hasPdf, infoThrows, pageCount, mkdirOk) ==
  ~readdirErr /\ hasPdf /\ ~infoThrows /\ pageCount > 0 /\ mkdirOk

\* server.js:730: files.filter(file => file.endsWith('.jpg'))
imageFiles(dir) == {f \in DOMAIN dir : f.base \in {"native", "slide"}}

\* server.js:722-738: does the direct export reach the rename loop?
DirectRouteUsable(readdirErr, imageCount) ==
  ~readdirErr /\ imageCount > 0

\* Variant of TerminalPlaceholders with a defect: the placeholders are
\* written but the record is neither saved nor answered.
TerminalPlaceholdersNoSave(c, id, failW) ==
  [WithResult(c, FallbackResult(FallbackLoop([EmptyWork EXCEPT !.dir = c.dir], id, 1, failW)),
              "terminal") EXCEPT !.pc = "hung"]

\* server.js:850-867
TerminalPlaceholders(c, id, failW) ==
  WithResult(c, FallbackResult(FallbackLoop([EmptyWork EXCEPT !.dir = c.dir], id, 1, failW)),
             "terminal")

\* What upload.single('presentation') makes of the request body
\* (server.js:59-75): a file stored under uploads/, no file part, or an
\* error passed to next() by the file filter (extension not allowed) or by
\* the size limit (more than 50 MB).
Uploads == {"file", "none", "badExtension", "tooLarge"}

\* server.js:59-75, 372-522, 1501-1504: from the arrival of the request to
\* the first wait.  An upload error skips the handler and reaches the error
\* handler, which answers 500.  Without a file the handler answers 400.
\* With the renderer absent it writes the placeholders and goes on to
\* saveToDatabase; otherwise it starts the PDF conversion.
ConvertStart(r) ==
  /\ conv[r].pc = "idle"
  /\ \E upload \in Uploads, topics \in TopicInputs :
       LET c0 == [conv[r] EXCEPT !.topics = topics,
                    !.before = [cache |-> presentations, index |-> presentationsByTopic]]
       IN
       IF upload \in {"badExtension", "tooLarge"}
       THEN SetConv(r, [c0 EXCEPT !.pc = "done", !.topics = << >>,
                           !.resp = <<ErrorResponse(500)>>,
                           !.log = <<"rejected", upload>>])
       ELSE IF upload = "none"
       THEN SetConv(r, [c0 EXCEPT !.pc = "done", !.topics = << >>,
                           !.resp = <<ErrorResponse(400)>>,
                           !.log = <<"rejected", upload>>])
       ELSE \E installed \in BOOLEAN, installOk \in BOOLEAN, recheck \in BOOLEAN,
               failW \in WriteFailSets :
              LET c1 == [c0 EXCEPT !.probe = IF installed THEN "present" ELSE "absent"]
              IN
              IF RendererAvailable(installed, installOk, recheck)
              THEN SetConv(r, [c1 EXCEPT !.pc = "pdfExec", !.log = <<"pdf">>])
              ELSE SetConv(r, WithResult(c1,
                      AbsentResult(AbsentLoop(EmptyWork, r, 1, failW)), "absent"))
  /\ UNCHANGED <<store, presentations, presentationsByTopic>>

\* server.js:522-532: the callback of exec(pdfCmd).
PdfExecDone(r) ==
  /\ conv[r].pc = "pdfExec"
  /\ \E error \in BOOLEAN, pdfWritten \in BOOLEAN :
       LET c  == conv[r]
           d  == IF pdfWritten THEN WriteFile(c.dir, PdfFile, OtherFile) ELSE c.dir
       IN
       IF error
       THEN \* fallbackToJpgConversion(): exec(cmd)
            SetConv(r, [c EXCEPT !.dir = d, !.pc = "jpgExec", !.log = Append(@, "direct")])
       ELSE \* fs.readdir(outputDir, ...)
            SetConv(r, [c EXCEPT !.dir = d, !.pc = "pdfReaddir"])
  /\ UNCHANGED <<store, presentations, presentationsByTopic>>

\* Variant of PdfReaddirDone with a defect: after the page loop the handler
\* does not return and goes on to the direct export.
PdfReaddirDoneFallsThrough(r) ==
  /\ conv[r].pc = "pdfReaddir"
  /\ \E readdirErr \in BOOLEAN, infoThrows \in BOOLEAN, pageCount \in 0 .. MaxPages,
        mkdirOk \in BOOLEAN :
       LET c == conv[r] IN
       IF PdfRouteUsable(readdirErr, PdfFile \in DOMAIN c.dir, infoThrows, pageCount, mkdirOk)
       THEN \E outcomes \in [1 .. pageCount -> PageOutcomes], failW \in WriteFailSets :
              LET w0 == [EmptyWork EXCEPT !.dir = WriteFile(c.dir, TempDir, OtherFile)]
              IN SetConv(r, [WithResult([c EXCEPT !.pageCount = pageCount],
                               PdfResult(PageLoop(w0, r, 1, pageCount, outcomes, failW)),
                               "pdf")
                             EXCEPT !.pc = "jpgExec", !.log = Append(@, "direct")])
       ELSE SetConv(r, [c EXCEPT !.pc = "jpgExec", !.log = Append(@, "direct")])
  /\ UNCHANGED <<store, presentations, presentationsByTopic>>

\* server.js:532-701: the callback of fs.readdir on the PDF route; pdfinfo,
\* the page loop and the assignment of the slide data.
PdfReaddirDone(r) ==
  /\ conv[r].pc = "pdfReaddir"
  /\ \E readdirErr \in BOOLEAN, infoThrows \in BOOLEAN, pageCount \in 0 .. MaxPages,
        mkdirOk \in BOOLEAN :
       LET c == conv[r] IN
       IF PdfRouteUsable(readdirErr, PdfFile \in DOMAIN c.dir, infoThrows, pageCount, mkdirOk)
       THEN \E outcomes \in [1 .. pageCount -> PageOutcomes], failW \in WriteFailSets :
              LET w0 == [EmptyWork EXCEPT !.dir = WriteFile(c.dir, TempDir, OtherFile)]
              IN SetConv(r, WithResult([c EXCEPT !.pageCount = pageCount],
                              PdfResult(PageLoop(w0, r, 1, pageCount, outcomes, failW)),
                              "pdf"))
       ELSE SetConv(r, [c EXCEPT !.pc = "jpgExec", !.log = Append(@, "direct")])
  /\ UNCHANGED <<store, presentations, presentationsByTopic>>

\* server.js:712-722: the callback of exec(cmd) in fallbackToJpgConversion.
JpgExecDone(r) ==
  /\ conv[r].pc = "jpgExec"
  /\ \E error \in BOOLEAN :
       LET c == conv[r] IN
       IF error
       THEN \E failW \in WriteFailSets : SetConv(r, TerminalPlaceholders(c, r, failW))
       ELSE \E imageCount \in 0 .. MaxImages :
              SetConv(r, [c EXCEPT !.pc = "jpgReaddir", !.imageCount = imageCount,
                            !.dir = [k \in {NativeFile(i) : i \in 1 .. imageCount}
                                       |-> RealImage(k.n)] @@ c.dir])
  /\ UNCHANGED <<store, presentations, presentationsByTopic>>

\* server.js:722-793: the callback of fs.readdir in fallbackToJpgConversion;
\* the rename loop and the single-image padding.
JpgReaddirDone(r) ==
  /\ conv[r].pc = "jpgReaddir"
  /\ \E readdirErr \in BOOLEAN, failW \in WriteFailSets :
       LET c == conv[r]
           count == Cardinality(imageFiles(c.dir))
       IN
       IF DirectRouteUsable(readdirErr, count)
       THEN \E renameFail \in SUBSET (1 .. count) :
              LET w0 == [EmptyWork EXCEPT !.dir = c.dir]
                  w1 == RenameLoop(w0, r, 1, count, renameFail)
              IN SetConv(r, WithResult(c,
                      DirectResult(PadIfSingle(w1, r, count, failW)), "direct"))
       ELSE SetConv(r, TerminalPlaceholders(c, r, failW))
  /\ UNCHANGED <<store, presentations, presentationsByTopic>>

\* The end of every route: the response is recorded, the temporary files of
\* the PDF route are removed and fs.unlink(inputFile) is issued
\* (server.js:498-503, 679-692, 841-844, 917-920).
Finish(r, c, ack, events, cleanup) ==
  /\ SetConv(r, [c EXCEPT !.pc = "done",
                          !.resp = Append(@, ack.resp),
                          !.log = @ \o events \o ack.events \o <<"unlink">>,
                          !.dir = CleanupDir(c, cleanup),
                          !.unlinked = TRUE])
  /\ presentations' = ack.cache
  /\ presentationsByTopic' = ack.index

\* server.js:98: Presentation.findOne inside saveToDatabase.
SaveFind(r) ==
  /\ conv[r].pc = "saveFind"
  /\ \E ok \in BOOLEAN, cleanup \in CleanupOutcomes :
       LET c == conv[r] IN
       IF ok
       THEN /\ SetConv(r, [c EXCEPT !.pc = "saveWrite", !.existing = (store[r] # None)])
            /\ UNCHANGED <<store, presentations, presentationsByTopic>>
       ELSE /\ Finish(r, c, Acknowledge(c, r, Document(r, c), FALSE, FALSE,
                                         presentations, presentationsByTopic),
                      <<"saveThrew">>, cleanup)
            /\ UNCHANGED store

\* Variant of SaveWrite with a defect: the slide data is kept in one
\* object all requests share, so the save writes what the other request
\* under way has assembled.
SaveWriteSharedData(r) ==
  /\ conv[r].pc = "saveWrite"
  /\ \E ok \in BOOLEAN, cleanup \in CleanupOutcomes :
       LET c == conv[r]
           o == IF DOMAIN conv = {r} THEN r ELSE CHOOSE q \in DOMAIN conv : q # r
           accepted == ok /\ (c.existing <=> store[r] # None)
       IN
       IF accepted
       THEN /\ store' = [store EXCEPT ![r] = Document(r, [conv[o] EXCEPT !.topics = c.topics])]
            /\ SetConv(r, [c EXCEPT !.pc = "verify", !.saved = Document(r, [conv[o] EXCEPT !.topics = c.topics]),
                                  !.log = Append(@, "saveReturned")])
            /\ UNCHANGED <<presentations, presentationsByTopic>>
       ELSE /\ Finish(r, c, Acknowledge(c, r, Document(r, c), FALSE, FALSE,
                                         presentations, presentationsByTopic),
                      <<"saveThrew">>, cleanup)
            /\ UNCHANGED store

\* server.js:100-121: findOneAndUpdate of the existing document, or save() of
\* a new one; the unique index on id rejects a second insert.
SaveWrite(r) ==
  /\ conv[r].pc = "saveWrite"
  /\ \E ok \in BOOLEAN, cleanup \in CleanupOutcomes :
       LET c == conv[r]
           accepted == ok /\ (c.existing <=> store[r] # None)
       IN
       IF accepted
       THEN /\ store' = [store EXCEPT ![r] = Document(r, c)]
            /\ SetConv(r, [c EXCEPT !.pc = "verify", !.saved = Document(r, c),
                                  !.log = Append(@, "saveReturned")])
            /\ UNCHANGED <<presentations, presentationsByTopic>>
       ELSE /\ Finish(r, c, Acknowledge(c, r, Document(r, c), FALSE, FALSE,
                                         presentations, presentationsByTopic),
                      <<"saveThrew">>, cleanup)
            /\ UNCHANGED store

\* server.js:129-143 and the code after it up to the end of the handler:
\* verifyDatabaseSave, then cache, topic index and response.
VerifyAndRespond(r) ==
  /\ conv[r].pc = "verify"
  /\ \E ok \in BOOLEAN, cleanup \in CleanupOutcomes :
       LET c == conv[r]
           verified == ok /\ store[r] # None
       IN Finish(r, c, Acknowledge(c, r, c.saved, TRUE, verified,
                                   presentations, presentationsByTopic),
                 <<IF verified THEN "verifyTrue" ELSE "verifyFalse">>, cleanup)
  /\ UNCHANGED store

\* The callbacks and continuations of a request that has been received.
Callback(r) ==
  \/ PdfExecDone(r)
  \/ PdfReaddirDone(r)
  \/ JpgExecDone(r)
  \/ JpgReaddirDone(r)
  \/ SaveFind(r)
  \/ SaveWrite(r)
  \/ VerifyAndRespond(r)

Next ==
  \/ \E r \in Requests : ConvertStart(r)
  \/ \E r \in Requests : PdfExecDone(r)
  \/ \E r \in Requests : PdfReaddirDone(r)
  \/ \E r \in Requests : JpgExecDone(r)
  \/ \E r \in Requests : JpgReaddirDone(r)
  \/ \E r \in Requests : SaveFind(r)
  \/ \E r \in Requests : SaveWrite(r)
  \/ \E r \in Requests : VerifyAndRespond(r)

Spec == Init /\ [][Next]_vars

\* Every child process, directory listing and store call returns, so the
\* event loop eventually runs the callback a request is waiting for.
FairSpec == Spec /\ \A r \in Requests : WF_vars(Callback(r))


\* ------------------------------------------------------------- vocabulary
Range(seq) == {seq[i] : i \in DOMAIN seq}
Has(log, e) == e \in Range(log)
\* Position of the first occurrence of e in log, 0 when it is absent.
Pos(log, e) == IF Has(log, e) THEN CHOOSE i \in DOMAIN log :
                                     log[i] = e /\ \A j \in 1 .. i - 1 : log[j] # e
               ELSE 0

Indexed(id) == \E t \in DOMAIN presentationsByTopic : id \in Range(presentationsByTopic[t])
Responded(r, status) == \E i \in DOMAIN conv[r].resp : conv[r].resp[i].status = status
Accepted(r) == conv[r].pc # "idle" /\ ~Has(conv[r].log, "rejected")
StoreFailed(r) == Has(conv[r].log, "saveThrew") \/ Has(conv[r].log, "verifyFalse")
Committed(r) == store[r] # None /\ Responded(r, 200)
PairwiseDistinct(seq) == \A i, j \in DOMAIN seq : i # j => seq[i] # seq[j]


\* ------------------------------------------------------ catalog: the store
Users == {"u1"}

\* Topic strings a query may carry.
Queries == {"ai", "a"}

\* The value the store holds for a field that was set to null.
Null == "null"

\* req.body of PUT /presentation/:id: every field is a list that is empty
\* when the body does not carry the field and holds its value otherwise.
Body(title, summary, author, topics) ==
  [title |-> title, summary |-> summary, author |-> author, topics |-> topics]

NoBody == Body(<< >>, << >>, << >>, << >>)

\* A body that carries every field, the metadata as it was given at the
\* conversion and new topics.
RetagBodies == {Body(<<GivenTitle>>, <<GivenSummary>>, <<GivenAuthor>>, <<<<"ML">>>>)}

\* Bodies that carry any of the fields; a title may be the empty string.
EditBodies ==
  {Body(title, summary, author, topics) :
     title \in {<< >>, <<"">>, <<"T1">>}, summary \in {<< >>, <<"S1">>},
     author \in {<< >>, <<"A1">>}, topics \in {<< >>, <<<<"ML">>>>}}

\* x || undefined: the value when the body carries a truthy one (an empty
\* string is not, an array is).
Truthy(x) == x # << >> /\ x # <<"">>

\* One key of the $set document of PUT (server.js:1091-1096).  A key whose
\* value is undefined is dropped by the store driver or written as null,
\* depending on the version of the driver; `drops` tells which.
SetKey(old, x, drops, null) ==
  IF Truthy(x) THEN x[1] ELSE IF drops THEN old ELSE null

\* The $set of PUT applied to a document.  A topics field written as null
\* is modelled as the empty list, which is how every reader takes it
\* (topics || [], server.js:157, 977, 1031, 1169, 1249, 1331).
SetFields(doc, body, drops) ==
  [doc EXCEPT !.title = SetKey(@, body.title, drops, Null),
              !.summary = SetKey(@, body.summary, drops, Null),
              !.author = SetKey(@, body.author, drops, Null),
              !.topics = SetKey(@, body.topics, drops, << >>)]

\* A record is read with a user id only while its viewCount is below MaxViews.
MaxViews == 1

\* The order in which the documents were inserted into the collection.
NaturalOrder == <<OldId, NewId>>

\* The non-empty substrings of a lower-cased topic label.
Fragments(t) ==
  CASE t = "ai" -> {"a", "i", "ai"}
    [] t = "ml" -> {"m", "l", "ml"}
    [] OTHER -> {t}

\* new RegExp(topic, 'i') tested against one element of topics.
RegexMatch(q, t) == toLowerCase(q) \in Fragments(toLowerCase(t))

\* Presentation.find({ isDeleted: false })
FindLive(db) ==
  LET ids == SelectSeq(NaturalOrder, LAMBDA i : db[i] # None /\ ~db[i].isDeleted)
  IN [k \in DOMAIN ids |-> db[ids[k]]]

\* Presentation.find({ topics: { $elemMatch: { $regex } }, isDeleted: false })
FindByTopic(db, q) ==
  SelectSeq(FindLive(db), LAMBDA d : \E k \in DOMAIN d.topics : RegexMatch(q, d.topics[k]))

\* Presentation.findOne({ id, isDeleted: false })
FindOneLive(db, id) ==
  IF db[id] # None /\ ~db[id].isDeleted THEN <<db[id]>> ELSE << >>

\* The field selection of GET /presentations (server.js:1019): slides,
\* slideTexts and isDeleted are not among the selected fields.
Projection(d) ==
  [id |-> d.id, title |-> d.title, summary |-> d.summary, author |-> d.author,
   topics |-> d.topics, slideCount |-> d.slideCount,
   isPlaceholder |-> d.isPlaceholder, viewCount |-> d.viewCount]

\* { $inc: { viewCount: 1 } } on the document with this id, if there is one.
IncViewCount(db, id) ==
  IF db[id] = None THEN db
  ELSE [db EXCEPT ![id] = [@ EXCEPT !.viewCount = @ + 1]]

\* The $match, $unwind, $group stages of GET /topics: the number of
\* (document, topic element) pairs per lower-cased topic.
TopicAggregation(db) ==
  LET live  == FindLive(db)
      pairs == UNION {{<<k, i>> : i \in DOMAIN live[k].topics} : k \in DOMAIN live}
      name(p) == toLowerCase(live[p[1]].topics[p[2]])
  IN [n \in {name(p) : p \in pairs} |-> Cardinality({p \in pairs : name(p) = n})]

\* ------------------------------------------- catalog: the cache, the index
\* The forEach that every reader of the store runs on the topics of a
\* document (server.js:157-165, 977-985, 1031-1039, 1169-1177, 1249-1257):
\* the id is pushed unless the list already includes it.
RECURSIVE IndexOnce(_, _, _, _)
IndexOnce(index, topics, i, id) ==
  IF i > Len(topics) THEN index
  ELSE LET topic == toLowerCase(topics[i])
           list  == IF topic \in DOMAIN index THEN index[topic] ELSE << >>
       IN IndexOnce((topic :> IF id \in Range(list) THEN list ELSE Append(list, id)) @@ index,
                    topics, i + 1, id)

\* docs.forEach(p => { presentations[p.id] = p; ...topic index... })
RECURSIVE Refresh(_, _, _, _)
Refresh(cache, index, docs, i) ==
  IF i > Len(docs) THEN [cache |-> cache, index |-> index]
  ELSE Refresh((docs[i].id :> docs[i]) @@ cache,
               IndexOnce(index, docs[i].topics, 1, docs[i].id), docs, i + 1)

\* delete presentations[id]
Uncache(cache, id) == [k \in (DOMAIN cache) \ {id} |-> cache[k]]

\* server.js:1331-1337: the id is filtered out of the lists of the topics
\* the cached object carries.
Unindex(index, topics, id) ==
  [t \in DOMAIN index |->
     IF \E i \in DOMAIN topics : toLowerCase(topics[i]) = t
     THEN SelectSeq(index[t], LAMBDA x : x # id)
     ELSE index[t]]

\* server.js:938-945: the id is added to the history of the user once.
MarkSeen(history, user, id) ==
  LET list == IF user \in DOMAIN history THEN history[user] ELSE << >>
  IN (user :> IF id \in Range(list) THEN list ELSE Append(list, id)) @@ history

\* server.js:1344-1346: the id is filtered out of every history.
Forget(history, id) ==
  [u \in DOMAIN history |-> SelectSeq(history[u], LAMBDA x : x # id)]

\* presentationsByTopic[topic].map(id => presentations[id]).filter(defined)
CachedUnder(cache, index, topic) ==
  LET ids == SelectSeq(index[topic], LAMBDA x : x \in DOMAIN cache)
  IN [k \in DOMAIN ids |-> cache[ids[k]]]

\* -------------------------------------------------------- catalog: handlers
\* The request of this invocation has not been answered yet.
InFlight(s) == s.pc \notin {"idle", "getDetached"}

\* The invocation still has a step to take.
Busy(s) == s.pc # "idle"

\* An arriving request is given the first invocation that is free.
Free(h) ==
  /\ ~Busy(handlers[h])
  /\ h = "h2" => Busy(handlers["h1"])

\* A request arrives.  `late` records that it arrived after a DELETE of the
\* same id had been answered with nothing else in flight, `immediate` that
\* it is the first thing the server runs after answering the conversion of
\* this id with 200.
Begin(op, id, user, q, body) ==
  [IdleHandler EXCEPT !.op = op, !.id = id, !.user = user, !.q = q,
                      !.body = body,
                      !.late = (id \in observed.quietDeleted),
                      !.immediate = /\ id = NewId
                                    /\ Responded(NewId, 200)
                                    /\ ~observed.afterConv]

\* res.json / res.status(..).json of invocation s.  The note tells where
\* the body came from: "store", "cache" (the store answered with nothing),
\* "afterError" (the store call raised), or it is the message of the answer.
AnswerOf(s, status, body, note) ==
  [op |-> s.op, id |-> s.id, user |-> s.user, q |-> s.q, status |-> status,
   body |-> body, note |-> note, late |-> s.late, immediate |-> s.immediate]

\* A handler slice ran: what it answered, which ids have been deleted with
\* nothing else in flight, and whether the conversion had finished.
Noted(quietDeleted, answer) ==
  observed' = [quietDeleted |-> quietDeleted,
               afterConv |-> observed.afterConv \/ conv[NewId].pc = "done",
               answer |-> answer]

\* The slice of invocation h ends at a wait: the invocation is now s.
Wait(h, s) ==
  /\ handlers' = [handlers EXCEPT ![h] = s]
  /\ Noted(observed.quietDeleted, NoAnswer)

\* The slice of invocation h ends with an answer, and the invocation is over.
Reply(h, s, status, body, note) ==
  /\ handlers' = [handlers EXCEPT ![h] = IdleHandler]
  /\ Noted(observed.quietDeleted, AnswerOf(s, status, body, note))

\* The reads with a user id that are under way for this id.
DueIncrements(id) ==
  Cardinality({h \in Handlers : /\ Busy(handlers[h]) /\ handlers[h].op = "get"
                                /\ handlers[h].id = id /\ handlers[h].user # NoUser})

ViewBudget(id) ==
  (IF store[id] = None THEN 0 ELSE store[id].viewCount) + DueIncrements(id) < MaxViews

\* server.js:925-957, 961-963: GET /presentation/:id up to its first wait.
\* A cached object is returned at once; with a user id the history is
\* updated and the viewCount update is issued without being awaited.
GetStart(h, id, user) ==
  /\ Free(h)
  /\ LET s == Begin("get", id, user, "", NoBody) IN
       /\ user # NoUser => ViewBudget(id)
       /\ IF id \in DOMAIN presentations
          THEN /\ userPresentationHistory' =
                    IF user # NoUser THEN MarkSeen(userPresentationHistory, user, id)
                    ELSE userPresentationHistory
               /\ handlers' = [handlers EXCEPT ![h] =
                                 IF user # NoUser THEN [s EXCEPT !.pc = "getDetached"]
                                 ELSE IdleHandler]
               /\ Noted(observed.quietDeleted,
                        AnswerOf(s, 200, <<presentations[id]>>, "cache"))
          ELSE /\ Wait(h, [s EXCEPT !.pc = "getFind"])
               /\ UNCHANGED userPresentationHistory
  /\ UNCHANGED <<store, presentations, presentationsByTopic, conv, saves>>

\* server.js:948-953: the store runs the update that was not awaited; a
\* rejection is logged and nothing else.
GetDetached(h) ==
  /\ handlers[h].pc = "getDetached"
  /\ \E ok \in BOOLEAN :
       /\ store' = IF ok THEN IncViewCount(store, handlers[h].id) ELSE store
       /\ Wait(h, IdleHandler)
  /\ UNCHANGED <<presentations, presentationsByTopic, conv, userPresentationHistory, saves>>

\* server.js:963: the store runs findOne({ id, isDeleted: false }).
GetFind(h) ==
  /\ handlers[h].pc = "getFind"
  /\ \E ok \in BOOLEAN :
       Wait(h, [handlers[h] EXCEPT !.pc = "getFound", !.failed = ~ok,
                   !.found = IF ok THEN FindOneLive(store, handlers[h].id) ELSE << >>])
  /\ UNCHANGED <<store, presentations, presentationsByTopic, conv,
                 userPresentationHistory, saves>>

\* server.js:965-993, 1004-1008: the handler resumes with the document.
GetFound(h) ==
  /\ handlers[h].pc = "getFound"
  /\ LET s == handlers[h] IN
       IF s.failed
       THEN /\ Reply(h, s, 500, << >>, "Database error")
            /\ UNCHANGED <<presentations, presentationsByTopic>>
       ELSE IF s.found = << >>
       THEN /\ Reply(h, s, 404, << >>, "Presentation not found")
            /\ UNCHANGED <<presentations, presentationsByTopic>>
       ELSE /\ presentations' = (s.id :> s.found[1]) @@ presentations
            /\ presentationsByTopic' =
                 IndexOnce(presentationsByTopic, s.found[1].topics, 1, s.id)
            /\ IF s.user # NoUser
               THEN Wait(h, [s EXCEPT !.pc = "getInc"])
               ELSE Reply(h, s, 200, s.found, "store")
  /\ UNCHANGED <<store, conv, userPresentationHistory, saves>>

\* server.js:990-993: the store runs the awaited viewCount update.
GetInc(h) ==
  /\ handlers[h].pc = "getInc"
  /\ \E ok \in BOOLEAN :
       /\ store' = IF ok THEN IncViewCount(store, handlers[h].id) ELSE store
       /\ Wait(h, [handlers[h] EXCEPT !.pc = "getInced", !.failed = ~ok])
  /\ UNCHANGED <<presentations, presentationsByTopic, conv, userPresentationHistory, saves>>

\* server.js:995-1008: the history is updated and the document is returned.
GetInced(h) ==
  /\ handlers[h].pc = "getInced"
  /\ LET s == handlers[h] IN
       IF s.failed
       THEN /\ Reply(h, s, 500, << >>, "Database error")
            /\ UNCHANGED userPresentationHistory
       ELSE /\ userPresentationHistory' = MarkSeen(userPresentationHistory, s.user, s.id)
            /\ Reply(h, s, 200, s.found, "store")
  /\ UNCHANGED <<store, presentations, presentationsByTopic, conv, saves>>

\* Object.values(presentations).map(p => ({ id, ..., viewCount }))
\* v || d
Or(v, d) == IF v \in {Null, ""} THEN d ELSE v

CacheList(cache) ==
  LET ids == SelectSeq(NaturalOrder, LAMBDA i : i \in DOMAIN cache)
  IN [k \in DOMAIN ids |->
        [Projection(cache[ids[k]]) EXCEPT !.title = Or(@, "originalName"),
                                          !.summary = Or(@, ""),
                                          !.author = Or(@, "Anonymous")]]

\* server.js:1012-1020: the store runs the find of GET /presentations.
ListFind(h) ==
  /\ Free(h)
  /\ \E ok \in BOOLEAN :
       LET live == FindLive(store) IN
       Wait(h, [Begin("list", "none", NoUser, "", NoBody) EXCEPT
                        !.pc = "listFound", !.failed = ~ok,
                        !.found = IF ok THEN [k \in DOMAIN live |-> Projection(live[k])]
                                  ELSE << >>])
  /\ UNCHANGED <<store, presentations, presentationsByTopic, conv,
                 userPresentationHistory, saves>>

\* server.js:1022-1065: the cache is overwritten with the listed objects;
\* after a store error the list is built from the cache.
ListFound(h) ==
  /\ handlers[h].pc = "listFound"
  /\ LET s == handlers[h]
         r == Refresh(presentations, presentationsByTopic, s.found, 1)
     IN
       IF s.failed
       THEN /\ Reply(h, s, 200, CacheList(presentations), "afterError")
            /\ UNCHANGED <<presentations, presentationsByTopic>>
       ELSE /\ presentations' = r.cache
            /\ presentationsByTopic' = r.index
            /\ Reply(h, s, 200, s.found, "store")
  /\ UNCHANGED <<store, conv, userPresentationHistory, saves>>

\* server.js:1148-1157: the store runs the find of GET /presentations/topic.
TopicFind(h, q) ==
  /\ Free(h)
  /\ \E ok \in BOOLEAN :
       Wait(h, [Begin("topic", "none", NoUser, q, NoBody) EXCEPT
                        !.pc = "topicFound", !.failed = ~ok,
                        !.found = IF ok THEN FindByTopic(store, q) ELSE << >>])
  /\ UNCHANGED <<store, presentations, presentationsByTopic, conv,
                 userPresentationHistory, saves>>

\* server.js:1159-1212
TopicFound(h) ==
  /\ handlers[h].pc = "topicFound"
  /\ LET s == handlers[h]
         r == Refresh(presentations, presentationsByTopic, s.found, 1)
     IN
       IF s.failed
       THEN /\ Reply(h, s, 200,
                   IF s.q \in DOMAIN presentationsByTopic
                   THEN CachedUnder(presentations, presentationsByTopic, s.q)
                   ELSE << >>, "afterError")
            /\ UNCHANGED <<presentations, presentationsByTopic>>
       ELSE IF Len(s.found) > 0
       THEN /\ presentations' = r.cache
            /\ presentationsByTopic' = r.index
            /\ Reply(h, s, 200, s.found, "store")
       ELSE /\ IF s.q \in DOMAIN presentationsByTopic /\ Len(presentationsByTopic[s.q]) > 0
               THEN Reply(h, s, 200,
                          CachedUnder(presentations, presentationsByTopic, s.q), "cache")
               ELSE Reply(h, s, 200, << >>, "none")
            /\ UNCHANGED <<presentations, presentationsByTopic>>
  /\ UNCHANGED <<store, conv, userPresentationHistory, saves>>

\* userPresentationHistory[userId] || []
SeenBy(history, user) == IF user \in DOMAIN history THEN Range(history[user]) ELSE {}

\* server.js:1227-1236: the store runs the find of GET /user/:userId/unseen.
UnseenFind(h, user, q) ==
  /\ Free(h)
  /\ \E ok \in BOOLEAN :
       Wait(h, [Begin("unseen", "none", user, q, NoBody) EXCEPT
                        !.pc = "unseenFound", !.failed = ~ok,
                        !.found = IF ok THEN FindByTopic(store, q) ELSE << >>])
  /\ UNCHANGED <<store, presentations, presentationsByTopic, conv,
                 userPresentationHistory, saves>>

\* server.js:1238-1290
UnseenFound(h) ==
  /\ handlers[h].pc = "unseenFound"
  /\ LET s == handlers[h]
         seen == SeenBy(userPresentationHistory, s.user)
         unseenDb == SelectSeq(s.found, LAMBDA p : p.id \notin seen)
         r == Refresh(presentations, presentationsByTopic, unseenDb, 1)
         fromCache == IF s.q \in DOMAIN presentationsByTopic
                      THEN SelectSeq(CachedUnder(presentations, presentationsByTopic, s.q),
                                     LAMBDA p : p.id \notin seen)
                      ELSE << >>
     IN
       IF ~s.failed /\ Len(s.found) > 0
       THEN /\ presentations' = r.cache
            /\ presentationsByTopic' = r.index
            /\ Reply(h, s, 200, unseenDb, "store")
       ELSE /\ Reply(h, s, 200, fromCache,
                      IF s.failed THEN "afterError"
                      ELSE IF s.q \in DOMAIN presentationsByTopic THEN "cache"
                      ELSE "none")
            /\ UNCHANGED <<presentations, presentationsByTopic>>
  /\ UNCHANGED <<store, conv, userPresentationHistory, saves>>

\* [topic -> presentationsByTopic[topic].length]
IndexCounts(index) == [t \in DOMAIN index |-> Len(index[t])]

\* server.js:1381-1414: GET /topics.  The handler touches no shared state,
\* so the aggregation and the answer are one step.
Topics(h) ==
  /\ Free(h)
  /\ \E ok \in BOOLEAN :
       LET s == Begin("topics", "none", NoUser, "", NoBody)
           agg == TopicAggregation(store)
       IN IF ok /\ DOMAIN agg # {}
          THEN Reply(h, s, 200, agg, "store")
          ELSE Reply(h, s, 200, IndexCounts(presentationsByTopic),
                     IF ok THEN "cache" ELSE "afterError")
  /\ UNCHANGED <<store, presentations, presentationsByTopic, conv,
                 userPresentationHistory, saves>>

\* Variant of PutUpdate with a defect: the filter of the update does not
\* ask for isDeleted: false.
PutUpdateIgnoresDeleted(h, id, body) ==
  /\ Free(h)
  /\ \E ok \in BOOLEAN, drops \in BOOLEAN :
       LET hit == store[id] # None
           doc == SetFields(store[id], body, drops)
       IN
       /\ store' = IF ok /\ hit THEN [store EXCEPT ![id] = doc] ELSE store
       /\ Wait(h, [Begin("put", id, NoUser, "", body) EXCEPT
                           !.pc = "putUpdated", !.failed = ~ok,
                           !.found = IF ok /\ hit THEN <<doc>> ELSE << >>])
  /\ UNCHANGED <<presentations, presentationsByTopic, conv, userPresentationHistory, saves>>

\* Variant of PutUpdate with a defect: an update that arrives while another
\* PUT of the id is in flight is answered but not written.
PutUpdateLosesRace(h, id, body) ==
  /\ Free(h)
  /\ \E ok \in BOOLEAN, drops \in BOOLEAN :
       LET hit == FindOneLive(store, id) # << >>
           doc == SetFields(store[id], body, drops)
           alone == \A g \in Handlers : ~(handlers[g].op = "put" /\ handlers[g].id = id)
       IN
       /\ store' = IF ok /\ hit /\ alone THEN [store EXCEPT ![id] = doc] ELSE store
       /\ Wait(h, [Begin("put", id, NoUser, "", body) EXCEPT
                           !.pc = "putUpdated", !.failed = ~ok,
                           !.found = IF ok /\ hit THEN <<doc>> ELSE << >>])
  /\ UNCHANGED <<presentations, presentationsByTopic, conv, userPresentationHistory, saves>>

\* server.js:1080-1099: the store runs the findOneAndUpdate of PUT
\* /presentation/:id.
PutUpdate(h, id, body) ==
  /\ Free(h)
  /\ \E ok \in BOOLEAN, drops \in BOOLEAN :
       LET hit == FindOneLive(store, id) # << >>
           doc == SetFields(store[id], body, drops)
       IN
       /\ store' = IF ok /\ hit THEN [store EXCEPT ![id] = doc] ELSE store
       /\ Wait(h, [Begin("put", id, NoUser, "", body) EXCEPT
                           !.pc = "putUpdated", !.failed = ~ok,
                           !.found = IF ok /\ hit THEN <<doc>> ELSE << >>])
  /\ UNCHANGED <<presentations, presentationsByTopic, conv, userPresentationHistory, saves>>

\* server.js:1101-1118: a cached object is replaced by the updated document.
PutUpdated(h) ==
  /\ handlers[h].pc = "putUpdated"
  /\ LET s == handlers[h] IN
       IF s.failed
       THEN /\ Reply(h, s, 500, << >>, "Server error")
            /\ UNCHANGED presentations
       ELSE IF s.found = << >>
       THEN /\ Reply(h, s, 404, << >>, "Presentation not found")
            /\ UNCHANGED presentations
       ELSE /\ presentations' = IF s.id \in DOMAIN presentations
                                THEN (s.id :> s.found[1]) @@ presentations
                                ELSE presentations
            /\ Reply(h, s, 200, s.found, "success")
  /\ UNCHANGED <<store, presentationsByTopic, conv, userPresentationHistory, saves>>

\* server.js:1308-1319: the store runs the findOneAndUpdate of DELETE
\* /presentation/:id, which sets isDeleted.
DeleteUpdate(h, id) ==
  /\ Free(h)
  /\ \E ok \in BOOLEAN :
       LET hit == FindOneLive(store, id) # << >>
           doc == [store[id] EXCEPT !.isDeleted = TRUE]
       IN
       /\ store' = IF ok /\ hit THEN [store EXCEPT ![id] = doc] ELSE store
       /\ Wait(h, [Begin("delete", id, NoUser, "", NoBody) EXCEPT
                           !.pc = "deleteUpdated", !.failed = ~ok,
                           !.found = IF ok /\ hit THEN <<doc>> ELSE << >>])
  /\ UNCHANGED <<presentations, presentationsByTopic, conv, userPresentationHistory, saves>>

\* No request other than that of handler h is waiting for its answer.
NothingElseInFlight(h) ==
  /\ \A g \in Handlers \ {h} : ~InFlight(handlers[g])
  /\ \A r \in Requests : conv[r].pc \in {"idle", "done"}

\* Variant of DeleteUpdated with a defect: the cached object is kept.
DeleteUpdatedKeepsCache(h) ==
  /\ handlers[h].pc = "deleteUpdated"
  /\ LET s == handlers[h]
         cached == s.id \in DOMAIN presentations
         dropped == /\ presentations' = presentations
                    /\ presentationsByTopic' =
                         Unindex(presentationsByTopic, presentations[s.id].topics, s.id)
         kept == UNCHANGED <<presentations, presentationsByTopic>>
     IN
       IF s.failed
       THEN /\ IF cached
               THEN /\ dropped
                    /\ userPresentationHistory' = Forget(userPresentationHistory, s.id)
                    /\ Reply(h, s, 200, << >>, "memoryOnly")
               ELSE /\ kept
                    /\ UNCHANGED userPresentationHistory
                    /\ Reply(h, s, 500, << >>, "Server error")
       ELSE IF s.found = << >>
       THEN /\ kept
            /\ UNCHANGED userPresentationHistory
            /\ Reply(h, s, 404, << >>, "Presentation not found")
       ELSE /\ IF cached THEN dropped ELSE kept
            /\ userPresentationHistory' = Forget(userPresentationHistory, s.id)
            /\ handlers' = [handlers EXCEPT ![h] = IdleHandler]
            /\ Noted(IF NothingElseInFlight(h)
                     THEN observed.quietDeleted \cup {s.id}
                     ELSE observed.quietDeleted,
                     AnswerOf(s, 200, << >>, "deleted"))
  /\ UNCHANGED <<store, conv, saves>>

\* Variant of DeleteUpdated with a defect: the histories are left alone.
DeleteUpdatedKeepsHistory(h) ==
  /\ handlers[h].pc = "deleteUpdated"
  /\ LET s == handlers[h]
         cached == s.id \in DOMAIN presentations
         dropped == /\ presentations' = Uncache(presentations, s.id)
                    /\ presentationsByTopic' =
                         Unindex(presentationsByTopic, presentations[s.id].topics, s.id)
         kept == UNCHANGED <<presentations, presentationsByTopic>>
     IN
       IF s.failed
       THEN /\ IF cached
               THEN /\ dropped
                    /\ UNCHANGED userPresentationHistory
                    /\ Reply(h, s, 200, << >>, "memoryOnly")
               ELSE /\ kept
                    /\ UNCHANGED userPresentationHistory
                    /\ Reply(h, s, 500, << >>, "Server error")
       ELSE IF s.found = << >>
       THEN /\ kept
            /\ UNCHANGED userPresentationHistory
            /\ Reply(h, s, 404, << >>, "Presentation not found")
       ELSE /\ IF cached THEN dropped ELSE kept
            /\ UNCHANGED userPresentationHistory
            /\ handlers' = [handlers EXCEPT ![h] = IdleHandler]
            /\ Noted(IF NothingElseInFlight(h)
                     THEN observed.quietDeleted \cup {s.id}
                     ELSE observed.quietDeleted,
                     AnswerOf(s, 200, << >>, "deleted"))
  /\ UNCHANGED <<store, conv, saves>>

\* server.js:1321-1377: the cached object, the index entries under the
\* cached topics and the history entries are removed.  After a store error
\* the same is done when the id is cached, and success is answered.  The
\* handler has no file system call.
DeleteUpdated(h) ==
  /\ handlers[h].pc = "deleteUpdated"
  /\ LET s == handlers[h]
         cached == s.id \in DOMAIN presentations
         dropped == /\ presentations' = Uncache(presentations, s.id)
                    /\ presentationsByTopic' =
                         Unindex(presentationsByTopic, presentations[s.id].topics, s.id)
         kept == UNCHANGED <<presentations, presentationsByTopic>>
     IN
       IF s.failed
       THEN /\ IF cached
               THEN /\ dropped
                    /\ userPresentationHistory' = Forget(userPresentationHistory, s.id)
                    /\ Reply(h, s, 200, << >>, "memoryOnly")
               ELSE /\ kept
                    /\ UNCHANGED userPresentationHistory
                    /\ Reply(h, s, 500, << >>, "Server error")
       ELSE IF s.found = << >>
       THEN /\ kept
            /\ UNCHANGED userPresentationHistory
            /\ Reply(h, s, 404, << >>, "Presentation not found")
       ELSE /\ IF cached THEN dropped ELSE kept
            /\ userPresentationHistory' = Forget(userPresentationHistory, s.id)
            /\ handlers' = [handlers EXCEPT ![h] = IdleHandler]
            /\ Noted(IF NothingElseInFlight(h)
                     THEN observed.quietDeleted \cup {s.id}
                     ELSE observed.quietDeleted,
                     AnswerOf(s, 200, << >>, "deleted"))
  /\ UNCHANGED <<store, conv, saves>>

\* server.js:1455-1464: POST /admin/sync empties the cache and the index and
\* starts loadPresentationsFromDatabase.
SyncStart(h) ==
  /\ Free(h)
  /\ presentations' = << >>
  /\ presentationsByTopic' = << >>
  /\ Wait(h, [Begin("sync", "none", NoUser, "", NoBody) EXCEPT !.pc = "syncFind"])
  /\ UNCHANGED <<store, conv, userPresentationHistory, saves>>

\* server.js:148: the store runs find({ isDeleted: false }).
SyncFind(h) ==
  /\ handlers[h].pc = "syncFind"
  /\ \E ok \in BOOLEAN :
       Wait(h, [handlers[h] EXCEPT !.pc = "syncFound", !.failed = ~ok,
                         !.found = IF ok THEN FindLive(store) ELSE << >>])
  /\ UNCHANGED <<store, presentations, presentationsByTopic, conv,
                 userPresentationHistory, saves>>

\* server.js:149-172, 1466-1484: the documents are put into the cache and
\* the index (an error of the find is caught inside the loader), then
\* countDocuments is awaited and the answer is sent.
SyncFound(h) ==
  /\ handlers[h].pc = "syncFound"
  /\ \E countOk \in BOOLEAN :
       LET s == handlers[h]
           r == Refresh(presentations, presentationsByTopic, s.found, 1)
       IN
       /\ presentations' = r.cache
       /\ presentationsByTopic' = r.index
       /\ IF countOk THEN Reply(h, s, 200, << >>, "success")
          ELSE Reply(h, s, 500, << >>, "Sync failed")
  /\ UNCHANGED <<store, conv, userPresentationHistory, saves>>

\* server.js:1495-1498: GET /clear-cache empties the cache, not the index.
ClearCache(h) ==
  /\ Free(h)
  /\ presentations' = << >>
  /\ Reply(h, Begin("clear", "none", NoUser, "", NoBody), 200, << >>, "Cache cleared")
  /\ UNCHANGED <<store, presentationsByTopic, conv, userPresentationHistory, saves>>

\* server.js:1216-1225: GET /user/:userId/seen/:presentationId answers
\* whether the list of the user includes the id.
SeenGet(h, user, id) ==
  /\ Free(h)
  /\ Reply(h, Begin("seen", id, user, "", NoBody), 200,
           <<[id |-> id, seen |-> id \in SeenBy(userPresentationHistory, user)]>>,
           "history")
  /\ UNCHANGED <<store, presentations, presentationsByTopic, conv,
                 userPresentationHistory, saves>>

\* server.js:1293-1305: POST /user/:userId/seen/:presentationId puts the id
\* on the list of the user, whether or not a record has the id.
SeenPost(h, user, id) ==
  /\ Free(h)
  /\ userPresentationHistory' = MarkSeen(userPresentationHistory, user, id)
  /\ Reply(h, Begin("markSeen", id, user, "", NoBody), 200, << >>, "success")
  /\ UNCHANGED <<store, presentations, presentationsByTopic, conv, saves>>

\* ------------------------------------------------ catalog: specification
\* The catalog holds one record loaded at startup; no request has been
\* received and no conversion is under way.
CatalogInit ==
  /\ Quiet
  /\ saves = IdleSaves
  /\ conv = [r \in Requests |-> IdleRequest]
  /\ store = [i \in Ids |-> IF i = OldId THEN OldDocument ELSE None]
  /\ presentations = (OldId :> OldDocument)
  /\ presentationsByTopic = ("ai" :> <<OldId>>)

Readers == Users \cup {NoUser}

\* The topic string of the unseen queries.
UnseenQueries == {"ai"}

\* Two handler invocations at a time; the requests that carry an id address
\* the record of the catalog.
CatalogNext ==
  \/ \E h \in Handlers, user \in Readers : GetStart(h, OldId, user)
  \/ \E h \in Handlers : GetDetached(h)
  \/ \E h \in Handlers : GetFind(h)
  \/ \E h \in Handlers : GetFound(h)
  \/ \E h \in Handlers : GetInc(h)
  \/ \E h \in Handlers : GetInced(h)
  \/ \E h \in Handlers : ListFind(h)
  \/ \E h \in Handlers : ListFound(h)
  \/ \E h \in Handlers, q \in Queries : TopicFind(h, q)
  \/ \E h \in Handlers : TopicFound(h)
  \/ \E h \in Handlers, user \in Users, q \in UnseenQueries : UnseenFind(h, user, q)
  \/ \E h \in Handlers : UnseenFound(h)
  \/ \E h \in Handlers : Topics(h)
  \/ \E h \in Handlers, body \in RetagBodies : PutUpdate(h, OldId, body)
  \/ \E h \in Handlers : PutUpdated(h)
  \/ \E h \in Handlers : DeleteUpdate(h, OldId)
  \/ \E h \in Handlers : DeleteUpdated(h)
  \/ \E h \in Handlers : SyncStart(h)
  \/ \E h \in Handlers : SyncFind(h)
  \/ \E h \in Handlers : SyncFound(h)
  \/ \E h \in Handlers : ClearCache(h)

CatalogSpec == CatalogInit /\ [][CatalogNext]_vars

\* The conversion as it stands when the renderer was found absent, the five
\* placeholders have been written and saveToDatabase is about to be called:
\* the state ConvertStart leads to.
ConvertedPlaceholders(id, topics) ==
  WithResult([IdleRequest EXCEPT !.topics = topics, !.probe = "absent"],
             AbsentResult(AbsentLoop(EmptyWork, id, 1, {})), "absent")

\* The catalog is empty and one conversion has reached its save.
PublishInit ==
  /\ Quiet
  /\ saves = IdleSaves
  /\ conv = [r \in Requests |-> ConvertedPlaceholders(r, <<"AI", "ai">>)]
  /\ store = [i \in Ids |-> None]
  /\ presentations = << >>
  /\ presentationsByTopic = << >>

\* The invocation that runs next to the conversion.
Single == {"h1"}

\* The rest of the conversion next to one handler invocation at a time; the
\* requests that carry an id address the record being converted.
PublishNext ==
  \/ \E r \in Requests : SaveFind(r)
  \/ \E r \in Requests : SaveWrite(r)
  \/ \E r \in Requests : VerifyAndRespond(r)
  \/ \E h \in Single, user \in Readers : GetStart(h, NewId, user)
  \/ \E h \in Single : GetDetached(h)
  \/ \E h \in Single : GetFind(h)
  \/ \E h \in Single : GetFound(h)
  \/ \E h \in Single : GetInc(h)
  \/ \E h \in Single : GetInced(h)
  \/ \E h \in Single : ListFind(h)
  \/ \E h \in Single : ListFound(h)
  \/ \E h \in Single, q \in Queries : TopicFind(h, q)
  \/ \E h \in Single : TopicFound(h)
  \/ \E h \in Single, user \in Users, q \in UnseenQueries : UnseenFind(h, user, q)
  \/ \E h \in Single : UnseenFound(h)
  \/ \E h \in Single : Topics(h)
  \/ \E h \in Single, body \in RetagBodies : PutUpdate(h, NewId, body)
  \/ \E h \in Single : PutUpdated(h)
  \/ \E h \in Single : DeleteUpdate(h, NewId)
  \/ \E h \in Single : DeleteUpdated(h)
  \/ \E h \in Single : SyncStart(h)
  \/ \E h \in Single : SyncFind(h)
  \/ \E h \in Single : SyncFound(h)
  \/ \E h \in Single : ClearCache(h)

PublishSpec == PublishInit /\ [][PublishNext]_vars


\* ------------------------------------------------------------ the page loop
\* A request whose PDF conversion succeeded and whose PDF has pageCount
\* pages, with what the tools will do on every page (server.js:549-572).
AtPageLoop(pageCount, outcomes) ==
  [IdleRequest EXCEPT !.pc = "pageLoop", !.probe = "present", !.log = <<"pdf">>,
                      !.dir = WriteFile(EmptyDir, PdfFile, OtherFile),
                      !.pageCount = pageCount, !.outcomes = outcomes]

PageInit ==
  /\ Quiet
  /\ saves = IdleSaves
  /\ store = [i \in Ids |-> None]
  /\ presentations = << >>
  /\ presentationsByTopic = << >>
  /\ \E pageCount \in 1 .. MaxPages :
       \E outcomes \in [1 .. pageCount -> PageOutcomes] :
         conv = [r \in Requests |-> AtPageLoop(pageCount, outcomes)]

\* server.js:562-628: the temp directory is made, the page loop runs on
\* the pages and the slide data is assigned.
PageLoopRun(r) ==
  /\ conv[r].pc = "pageLoop"
  /\ \E failW \in WriteFailSets :
       LET c  == conv[r]
           w0 == [EmptyWork EXCEPT !.dir = WriteFile(c.dir, TempDir, OtherFile)]
       IN SetConv(r, WithResult(c,
                      PdfResult(PageLoop(w0, r, 1, c.pageCount, c.outcomes, failW)),
                      "pdf"))
  /\ UNCHANGED <<store, presentations, presentationsByTopic>>

PageNext ==
  \/ \E r \in Requests : PageLoopRun(r)
  \/ \E r \in Requests : SaveFind(r)
  \/ \E r \in Requests : SaveWrite(r)
  \/ \E r \in Requests : VerifyAndRespond(r)

PageSpec == PageInit /\ [][PageNext]_vars

\* ------------------------------------------------- concurrent conversions
\* The id uuidv4() gives to a second /convert request.
SecondId == "p3"
Pair == {NewId, SecondId}

\* Two /convert requests are under way on an empty catalog: one has just
\* arrived, the other has written its placeholders and is about to save.
PairInit ==
  /\ Quiet
  /\ saves = IdleSaves
  /\ conv = [r \in Pair |-> IF r = NewId THEN IdleRequest
                            ELSE ConvertedPlaceholders(r, <<"AI">>)]
  /\ store = [i \in Pair |-> None]
  /\ presentations = << >>
  /\ presentationsByTopic = << >>

PairNext ==
  \/ \E r \in Pair : ConvertStart(r)
  \/ \E r \in Pair : PdfExecDone(r)
  \/ \E r \in Pair : PdfReaddirDone(r)
  \/ \E r \in Pair : JpgExecDone(r)
  \/ \E r \in Pair : JpgReaddirDone(r)
  \/ \E r \in Pair : SaveFind(r)
  \/ \E r \in Pair : SaveWrite(r)
  \/ \E r \in Pair : VerifyAndRespond(r)

PairSpec == PairInit /\ [][PairNext]_vars

\* ------------------------------------------------- metadata edits, deletes
\* One invocation at a time on a catalog that holds one record; the
\* requests address that record or an id the catalog has never held.
EditNext ==
  \/ \E h \in Single, id \in Ids, user \in Readers : GetStart(h, id, user)
  \/ \E h \in Single : GetDetached(h)
  \/ \E h \in Single : GetFind(h)
  \/ \E h \in Single : GetFound(h)
  \/ \E h \in Single : GetInc(h)
  \/ \E h \in Single : GetInced(h)
  \/ \E h \in Single, id \in Ids, body \in EditBodies : PutUpdate(h, id, body)
  \/ \E h \in Single : PutUpdated(h)
  \/ \E h \in Single, id \in Ids : DeleteUpdate(h, id)
  \/ \E h \in Single : DeleteUpdated(h)
  \/ \E h \in Single : ClearCache(h)

EditSpec == CatalogInit /\ [][EditNext]_vars

\* ------------------------------------------------------- viewing history
\* One invocation at a time on the catalog record: reads with and without
\* a user, the seen and unseen requests, and the requests that change what
\* the store, the cache and the index hold.
SeenNext ==
  \/ \E h \in Single, user \in Readers : GetStart(h, OldId, user)
  \/ \E h \in Single : GetDetached(h)
  \/ \E h \in Single : GetFind(h)
  \/ \E h \in Single : GetFound(h)
  \/ \E h \in Single : GetInc(h)
  \/ \E h \in Single : GetInced(h)
  \/ \E h \in Single, user \in Users : SeenGet(h, user, OldId)
  \/ \E h \in Single, user \in Users : SeenPost(h, user, OldId)
  \/ \E h \in Single, user \in Users, q \in Queries : UnseenFind(h, user, q)
  \/ \E h \in Single : UnseenFound(h)
  \/ \E h \in Single, body \in RetagBodies : PutUpdate(h, OldId, body)
  \/ \E h \in Single : PutUpdated(h)
  \/ \E h \in Single : DeleteUpdate(h, OldId)
  \/ \E h \in Single : DeleteUpdated(h)
  \/ \E h \in Single : ClearCache(h)

SeenSpec == CatalogInit /\ [][SeenNext]_vars

\* --------------------------------------------------------- the manual sync
\* One invocation at a time on the catalog record: the requests that leave
\* the cache or the index behind the store, and POST /admin/sync.
SyncNext ==
  \/ \E h \in Single, body \in RetagBodies : PutUpdate(h, OldId, body)
  \/ \E h \in Single : PutUpdated(h)
  \/ \E h \in Single : DeleteUpdate(h, OldId)
  \/ \E h \in Single : DeleteUpdated(h)
  \/ \E h \in Single : ClearCache(h)
  \/ \E h \in Single : SyncStart(h)
  \/ \E h \in Single : SyncFind(h)
  \/ \E h \in Single : SyncFound(h)

SyncSpec == CatalogInit /\ [][SyncNext]_vars

\* --------------------------------------------- concurrent edits and deletes
\* req.body of the PUT requests that race: each sets the title to its own
\* value.
RaceBodies == {Body(<<"T1">>, << >>, << >>, << >>), Body(<<"T2">>, << >>, << >>, << >>)}

\* Two invocations at a time on the catalog record: PUT and DELETE of it.
RaceNext ==
  \/ \E h \in Handlers, body \in RaceBodies : PutUpdate(h, OldId, body)
  \/ \E h \in Handlers : PutUpdated(h)
  \/ \E h \in Handlers : DeleteUpdate(h, OldId)
  \/ \E h \in Handlers : DeleteUpdated(h)

RaceSpec == CatalogInit /\ [][RaceNext]_vars

\* ------------------------------------------------- a delete next to reads
\* Two invocations at a time on the catalog record: the reads, the manual
\* sync and DELETE.  No request clears the cache or changes the topics.
DeleteRaceNext ==
  \/ \E h \in Handlers : GetStart(h, OldId, NoUser)
  \/ \E h \in Handlers : GetFind(h)
  \/ \E h \in Handlers : GetFound(h)
  \/ \E h \in Handlers : ListFind(h)
  \/ \E h \in Handlers : ListFound(h)
  \/ \E h \in Handlers, q \in Queries : TopicFind(h, q)
  \/ \E h \in Handlers : TopicFound(h)
  \/ \E h \in Handlers, user \in Users, q \in UnseenQueries : UnseenFind(h, user, q)
  \/ \E h \in Handlers : UnseenFound(h)
  \/ \E h \in Handlers : DeleteUpdate(h, OldId)
  \/ \E h \in Handlers : DeleteUpdated(h)
  \/ \E h \in Handlers : SyncStart(h)
  \/ \E h \in Handlers : SyncFind(h)
  \/ \E h \in Handlers : SyncFound(h)

DeleteRaceSpec == CatalogInit /\ [][DeleteRaceNext]_vars

\* ------------------------------------------- saveToDatabase called twice
\* Here the collection is the list of its documents, so that two documents
\* with one id can be told from one.

\* presentationData: the object /convert hands to saveToDatabase
\* (server.js:394-405 with the slide fields of the strategy that ran).
Payload(id, topics, res) ==
  [id |-> id, title |-> GivenTitle, summary |-> GivenSummary,
   author |-> GivenAuthor, topics |-> topics, slides |-> res.slides,
   slideTexts |-> res.slideTexts, slideCount |-> res.slideCount,
   isPlaceholder |-> res.isPlaceholder, viewCount |-> 0, isDeleted |-> FALSE]

Payloads ==
  {Payload(NewId, topics, res) :
     topics \in TopicInputs,
     res \in {AbsentResult(AbsentLoop(EmptyWork, NewId, 1, {})),
              FallbackResult(FallbackLoop(EmptyWork, NewId, 1, {}))}}

\* new Presentation(presentationData).save(), then toObject(): the data
\* carries every modelled field, so no schema default applies.
NewDocument(data) == data

\* The update of findOneAndUpdate(filter, presentationData): the fields of
\* the data are set, the others are kept.
Updated(doc, data) ==
  [f \in DOMAIN doc |-> IF f \in DOMAIN data THEN data[f] ELSE doc[f]]

Matching(docs, id) == {i \in DOMAIN docs : docs[i].id = id}

SetCall(k, c, docs) ==
  /\ saves' = [saves EXCEPT !.call[k] = c, !.docs = docs]
  /\ UNCHANGED <<store, presentations, presentationsByTopic, conv,
                 userPresentationHistory, handlers, observed>>

\* server.js:98: the store runs findOne({ id }) of call k.  The second call
\* is made after the first one was made.
SaveCallFind(k) ==
  /\ saves.call[k].pc = "idle"
  /\ k = 2 => saves.call[1].pc # "idle"
  /\ \E ok \in BOOLEAN :
       SetCall(k, [saves.call[k] EXCEPT
                     !.pc = IF ok THEN "write" ELSE "threw",
                     !.existing = ok /\ Matching(saves.docs, saves.payload.id) # {}],
               saves.docs)

\* A variant of SaveCallWrite with a defect: the document is inserted
\* whatever findOne returned, into a collection without a unique index.
SaveCallWriteInserts(k) ==
  /\ saves.call[k].pc = "write"
  /\ \E ok \in BOOLEAN :
       IF ok
       THEN SetCall(k, [saves.call[k] EXCEPT !.pc = "returned",
                                             !.returned = NewDocument(saves.payload)],
                    Append(saves.docs, NewDocument(saves.payload)))
       ELSE SetCall(k, [saves.call[k] EXCEPT !.pc = "threw"], saves.docs)

\* server.js:100-125: the store runs findOneAndUpdate of the existing
\* document, or save() of a new one.  The unique index on id rejects the
\* insert of a second document with the id; an update that matches no
\* document returns null, and toObject() of null raises.
SaveCallWrite(k) ==
  /\ saves.call[k].pc = "write"
  /\ \E ok \in BOOLEAN :
       LET c == saves.call[k]
           m == Matching(saves.docs, saves.payload.id)
           i == CHOOSE x \in m : \A y \in m : x <= y
           doc == Updated(saves.docs[i], saves.payload)
       IN
       IF ~ok THEN SetCall(k, [c EXCEPT !.pc = "threw"], saves.docs)
       ELSE IF c.existing
       THEN IF m # {}
            THEN SetCall(k, [c EXCEPT !.pc = "returned", !.returned = doc],
                         [saves.docs EXCEPT ![i] = doc])
            ELSE SetCall(k, [c EXCEPT !.pc = "threw"], saves.docs)
       ELSE IF m = {}
            THEN SetCall(k, [c EXCEPT !.pc = "returned",
                                      !.returned = NewDocument(saves.payload)],
                         Append(saves.docs, NewDocument(saves.payload)))
            ELSE SetCall(k, [c EXCEPT !.pc = "threw"], saves.docs)

\* The collection is empty or holds the record of an earlier conversion;
\* any of the payloads is about to be saved twice.
SaveInit ==
  /\ Quiet
  /\ conv = [r \in Requests |-> IdleRequest]
  /\ store = [i \in Ids |-> None]
  /\ presentations = << >>
  /\ presentationsByTopic = << >>
  /\ \E data \in Payloads, docs \in {<< >>, <<OldDocument>>} :
       saves = [IdleSaves EXCEPT !.payload = data, !.docs = docs]

SaveNext ==
  \/ \E k \in 1 .. 2 : SaveCallFind(k)
  \/ \E k \in 1 .. 2 : SaveCallWrite(k)

SaveSpec == SaveInit /\ [][SaveNext]_vars

\* ------------------------------------------------------------------ claims

\* C1: on every /convert route the presentation enters the in-memory cache
\* and its id enters the topic index only after saveToDatabase has returned
\* and a later verifyDatabaseSave has returned true, and the success
\* response is sent only after both updates.
C1_CommitOnlyAfterVerify ==
  \A r \in Requests :
    LET L == conv[r].log IN
    /\ (r \in DOMAIN presentations \/ Indexed(r) \/ Has(L, "cache") \/ Has(L, "index")
          \/ Responded(r, 200))
         => /\ 0 < Pos(L, "saveReturned")
            /\ Pos(L, "saveReturned") < Pos(L, "verifyTrue")
            /\ Pos(L, "verifyTrue") < Pos(L, "cache")
            /\ Pos(L, "verifyTrue") < Pos(L, "index")
            /\ ~Has(L, "verifyFalse") /\ ~Has(L, "saveThrew")
    /\ Responded(r, 200)
         => /\ Pos(L, "cache") < Pos(L, "respond200")
            /\ Pos(L, "index") < Pos(L, "respond200")
            /\ r \in DOMAIN presentations
            /\ \A i \in DOMAIN conv[r].topics : r \in Range(presentationsByTopic[toLowerCase(conv[r].topics[i])])

\* A request on the direct-export route has been saved, verified, cached,
\* indexed and answered.
C1_Witness ==
  \E r \in Requests :
    /\ conv[r].path = "direct" /\ Responded(r, 200)
    /\ r \in DOMAIN presentations /\ Indexed(r)

\* C2: when saveToDatabase throws or verifyDatabaseSave returns false, the
\* request is answered with status 500 and an error body, never with a
\* success, and the cache and the topic index are what they were when the
\* request arrived.
C2_StoreFailureIsExplicit ==
  \A r \in Requests :
    StoreFailed(r)
      => /\ Len(conv[r].resp) = 1
         /\ conv[r].resp[1].status = 500
         /\ conv[r].resp[1].flag = "error"
         /\ presentations = conv[r].before.cache
         /\ presentationsByTopic = conv[r].before.index

\* The verification failed for a request with topics, on a catalog that
\* already held a record.
C2_Witness ==
  \E r \in Requests :
    /\ Has(conv[r].log, "verifyFalse") /\ conv[r].topics # << >>
    /\ OldId \in DOMAIN presentations /\ store[r] # None

\* C3: an accepted request is answered with an error status only if the
\* save or the verification failed; a missing renderer, a failed install, a
\* failed PDF conversion, a failed direct export and page failures all end
\* in a success response when the store calls succeed.
C3_OnlyStoreFailuresSurface ==
  \A r \in Requests :
    (conv[r].pc = "done" /\ Accepted(r))
      => /\ Len(conv[r].resp) = 1
         /\ conv[r].resp[1].status \in {200, 500}
         /\ conv[r].resp[1].status = 500 <=> StoreFailed(r)

\* Both conversion strategies failed and the request was answered 200.
C3_Witness ==
  \E r \in Requests :
    /\ conv[r].path = "terminal" /\ conv[r].pc = "done" /\ Responded(r, 200)
    /\ Has(conv[r].log, "pdf") /\ Has(conv[r].log, "direct")


\* C4: every accepted /convert request eventually sends exactly one
\* response, a success or a 500, whichever renderer, page-tool,
\* placeholder-write and store calls fail, provided every call returns.
C4_ExactlyOneResponse ==
  /\ \A r \in Requests : [](Len(conv[r].resp) <= 1)
  /\ \A r \in Requests :
       Accepted(r) ~> (/\ conv[r].pc = "done"
                       /\ Len(conv[r].resp) = 1
                       /\ conv[r].resp[1].status \in {200, 500})

\* A request that went through both failed strategies, wrote placeholders of
\* which some failed, and then lost the store has been answered once.
C4_Witness ==
  \E r \in Requests :
    /\ conv[r].path = "terminal" /\ StoreFailed(r)
    /\ SlideFile(1) \notin DOMAIN conv[r].dir
    /\ conv[r].pc = "done" /\ Len(conv[r].resp) = 1

\* C5: in every success response and in the record committed with it, on
\* every route, the number of slides, the number of slide texts and
\* slideCount are equal.
C5_ParallelArrays ==
  \A r \in Requests :
    /\ \A i \in DOMAIN conv[r].resp :
         conv[r].resp[i].status = 200
           => /\ Len(conv[r].resp[i].slides) = conv[r].resp[i].slideCount
              /\ Len(conv[r].resp[i].slideTexts) = conv[r].resp[i].slideCount
    /\ store[r] # None
         => /\ Len(store[r].slides) = store[r].slideCount
            /\ Len(store[r].slideTexts) = store[r].slideCount
    /\ r \in DOMAIN presentations
         => /\ Len(presentations[r].slides) = presentations[r].slideCount
            /\ Len(presentations[r].slideTexts) = presentations[r].slideCount

\* A two-page PDF run in which text extraction raised for a page has been
\* committed and answered.
C5_Witness ==
  \E r \in Requests :
    /\ conv[r].path = "pdf" /\ Committed(r) /\ store[r].slideCount = 2
    /\ PlainText(2) \in Range(store[r].slideTexts)

\* C6: in every committed record, slides[i] is /slides/{id}/slide-{i+1}.jpg
\* on every route, also when renaming a renderer output file fails.
C6_CanonicalUrls ==
  \A r \in Requests :
    store[r] # None
      => \A i \in DOMAIN store[r].slides : store[r].slides[i] = SlideUrl(r, i)

\* C7: when the paginate-then-rasterize strategy runs with page count N > 0,
\* the committed record has slideCount = N, whichever pages fail.
C7_SlideCountIsPageCount ==
  \A r \in Requests :
    (conv[r].path = "pdf" /\ store[r] # None)
      => /\ conv[r].pageCount > 0
         /\ store[r].slideCount = conv[r].pageCount
         /\ Len(store[r].slides) = conv[r].pageCount
         /\ \A i \in DOMAIN conv[r].resp :
              conv[r].resp[i].status = 200 => conv[r].resp[i].slideCount = conv[r].pageCount

\* A two-page run in which both pages failed rasterization has been committed.
C7_Witness ==
  \E r \in Requests :
    /\ conv[r].path = "pdf" /\ Committed(r) /\ conv[r].pageCount = 2
    /\ store[r].slideTexts = <<ErrorText(1), PlaceholderText(2)>>

C9_TerminalFill ==
  \A r \in Requests :
    (conv[r].path = "terminal" /\ store[r] # None)
      => /\ Has(conv[r].log, "pdf") /\ Has(conv[r].log, "direct")
         /\ store[r].isPlaceholder
         /\ store[r].slideCount = 23
         /\ Len(store[r].slides) = 23
         /\ PairwiseDistinct(conv[r].made)
         /\ \A i \in 1 .. 23 :
              /\ store[r].slides[i] = SlideUrl(r, i)
              /\ conv[r].made[i] = DistinctContent(i)
              /\ store[r].slides[i].file \in DOMAIN conv[r].dir
                   => conv[r].dir[store[r].slides[i].file] = DistinctContent(i)

\* The direct export returned no image after the PDF route had failed, and
\* the 23 placeholders have been committed.
C9_Witness ==
  \E r \in Requests :
    /\ conv[r].path = "terminal" /\ Committed(r)
    /\ conv[r].imageCount = 0 /\ Has(conv[r].log, "direct")
    /\ conv[r].dir[SlideFile(23)] = DistinctContent(23)

\* C10: when direct export yields exactly one image, the committed record
\* has slideCount = 23; slide 1 is the real image and slides 2..23 are
\* distinct placeholders, also when writing some of them fails.
C10_SingleImagePadding ==
  \A r \in Requests :
    (conv[r].path = "direct" /\ conv[r].imageCount = 1 /\ store[r] # None)
      => /\ store[r].slideCount = 23
         /\ Len(store[r].slides) = 23
         /\ Len(store[r].slideTexts) = 23
         /\ conv[r].made[1] = RealImage(1)
         /\ conv[r].dir[store[r].slides[1].file] = RealImage(1)
         /\ PairwiseDistinct(conv[r].made)
         /\ \A i \in 2 .. 23 :
              /\ store[r].slides[i] = SlideUrl(r, i)
              /\ store[r].slideTexts[i] = PlaceholderText(i)
              /\ conv[r].made[i] = DistinctContent(i)
              /\ store[r].slides[i].file \in DOMAIN conv[r].dir
                   => conv[r].dir[store[r].slides[i].file] = DistinctContent(i)

\* A single exported image was padded, the write of placeholder 2 failed,
\* and the record has been committed.
C10_Witness ==
  \E r \in Requests :
    /\ conv[r].path = "direct" /\ conv[r].imageCount = 1 /\ Committed(r)
    /\ SlideFile(2) \notin DOMAIN conv[r].dir
    /\ SlideFile(3) \in DOMAIN conv[r].dir

\* A slide is synthetic when what was put behind its url is a placeholder
\* text file rather than a rendered image.
Synthetic(content) == content.kind \in {"generic", "distinct"}

\* C11: for every committed record, isPlaceholder is true if and only if at
\* least one of its slides is a synthetic placeholder rather than a rendered
\* image, also after a paginate run in which some pages fell back to
\* placeholders and after the single-image run padded to 23.
C11_FlagIffSynthetic ==
  \A r \in Requests :
    Committed(r)
      => (store[r].isPlaceholder
            <=> \E i \in DOMAIN conv[r].made : Synthetic(conv[r].made[i]))

\* C12: a GET /presentation/:id that the server runs first after it answered
\* the conversion of that id with 200 returns a record whose slideCount is
\* the slideCount of that answer, with or without a user id.
C12_ReadAfterWrite ==
  LET a == observed.answer IN
    (a.op = "get" /\ a.immediate)
      => /\ a.status = 200
         /\ a.body[1].id = a.id
         /\ a.body[1].slideCount = conv[a.id].resp[1].slideCount

\* The conversion was answered with 200 and slideCount 5, and the read that
\* followed it at once, with a user id, has been answered.
C12_Witness ==
  /\ observed.answer.op = "get" /\ observed.answer.immediate
  /\ observed.answer.user = "u1" /\ observed.answer.status = 200
  /\ conv[NewId].resp[1].slideCount = 5

\* C13: every GET /presentation/:id that returns a record returns the full
\* record, slides and slideTexts present and each of length slideCount,
\* whatever list, topic, unseen and cache-clear requests came before.
C13_FullRecord ==
  LET a == observed.answer IN
    (a.op = "get" /\ a.status = 200)
      => /\ {"slides", "slideTexts"} \subseteq DOMAIN a.body[1]
         /\ Len(a.body[1].slides) = a.body[1].slideCount
         /\ Len(a.body[1].slideTexts) = a.body[1].slideCount

\* C14: once DELETE /presentation/:id has been answered with success after
\* the store marked the record, with no other request in flight, every GET
\* /presentation/:id for that id that arrives later, with or without a user
\* id, is answered 404 (500 when the store fails that very lookup) and never
\* with the record, whichever list, topic, unseen, sync, update and
\* cache-clear requests run in between or next to it; the record stays
\* marked in the store and does not come back into the cache.
C14_DeletedStaysGone ==
  LET a == observed.answer IN
    /\ (a.op = "get" /\ a.late)
         => /\ a.status \in {404, 500}
            /\ a.body = << >>
            /\ a.status = 500 => a.note = "Database error"
    /\ \A id \in observed.quietDeleted :
         /\ store[id] # None /\ store[id].isDeleted
         /\ id \notin DOMAIN presentations

\* The cache was cleared before the record was deleted, so the topic index
\* still lists the id; a later read with a user id has been answered 404.
C14_Witness ==
  /\ observed.answer.op = "get" /\ observed.answer.late
  /\ observed.answer.user = "u1" /\ observed.answer.status = 404
  /\ "ai" \in DOMAIN presentationsByTopic
  /\ OldId \in Range(presentationsByTopic["ai"])

\* The slide image files in the output directory of a conversion.
SlideFiles(dir) == {f \in DOMAIN dir : f.base \in {"slide", "native"}}

\* C15: when DELETE /presentation/:id has been answered with success after
\* the store marked the record, the slide files of the presentation are gone
\* from disk and the store still holds the record, with isDeleted = true;
\* and no step ever removes a record from the store.
C15_FilesGoRecordStays ==
  /\ [](LET a == observed.answer IN
          (a.op = "delete" /\ a.status = 200 /\ a.note = "deleted")
            => /\ store[a.id] # None /\ store[a.id].isDeleted
               /\ SlideFiles(conv[a.id].dir) = {})
  /\ [][\A id \in Ids : store[id] # None => store'[id] # None]_vars

Deleted(id) == store[id] # None /\ store[id].isDeleted

\* C16: a record whose isDeleted flag is true in the store is not returned
\* by GET /presentations, GET /presentations/topic/:topic or GET
\* /user/:userId/unseen/:topic and is not counted by GET /topics when these
\* answer from the cache or the topic index.  (An answer computed by the
\* store is filtered by the store.)  Stated for answers sent while no other
\* request is in flight.
C16_DeletedNeverServed ==
  LET a == observed.answer IN
    (a.note # "store" /\ \A h \in Handlers : ~Busy(handlers[h]))
      => /\ a.op \in {"list", "topic", "unseen"}
              => \A k \in DOMAIN a.body : ~Deleted(a.body[k].id)
         /\ a.op = "topics"
              => \A t \in DOMAIN a.body :
                   a.body[t] = Cardinality({k \in DOMAIN presentationsByTopic[t] :
                                              ~Deleted(presentationsByTopic[t][k])})

\* The record of id is live and carries topic t, compared case-insensitively.
CarriesTopic(id, t) ==
  /\ store[id] # None /\ ~store[id].isDeleted
  /\ \E i \in DOMAIN store[id].topics : toLowerCase(store[id].topics[i]) = t

\* C18: whenever no request is in flight, an id is listed in the topic index
\* under a lower-cased topic t if and only if its record in the store is not
\* deleted and carries t, case-insensitively; also after PUT
\* /presentation/:id has changed the topics and after a DELETE.
C18_IndexMatchesStore ==
  (\A h \in Handlers : ~Busy(handlers[h]))
    => \A id \in Ids, t \in {"ai", "ml"} :
         (t \in DOMAIN presentationsByTopic /\ id \in Range(presentationsByTopic[t]))
           <=> CarriesTopic(id, t)

\* C17: two calls of saveToDatabase with the same id and identical payload
\* leave exactly one record for the id, whose content is what the first call
\* stored; at no time does the collection hold two documents with the id,
\* the two calls return the same document, one of them took the update
\* branch, and the other documents of the collection are untouched.
C17_SaveIsIdempotent ==
  LET m == Matching(saves.docs, saves.payload.id) IN
    /\ Cardinality(m) <= 1
    /\ \A i \in (DOMAIN saves.docs) \ m : saves.docs[i] = OldDocument
    /\ (\A k \in 1 .. 2 : saves.call[k].pc = "returned")
         => /\ Cardinality(m) = 1
            /\ \A i \in m : saves.docs[i] = NewDocument(saves.payload)
            /\ saves.call[1].returned = NewDocument(saves.payload)
            /\ saves.call[2].returned = NewDocument(saves.payload)
            /\ saves.call[1].existing \/ saves.call[2].existing

\* Both calls returned, the second through the update branch, on a
\* collection that held another record.
C17_Witness ==
  /\ \A k \in 1 .. 2 : saves.call[k].pc = "returned"
  /\ saves.call[2].existing /\ ~saves.call[1].existing
  /\ Len(saves.docs) = 2 /\ saves.payload.slideCount = 23

\* The ids of the live records with a topic that contains q, compared
\* case-insensitively.
TopicMatches(q) ==
  {id \in Ids : /\ store[id] # None /\ ~store[id].isDeleted
                /\ \E i \in DOMAIN store[id].topics : RegexMatch(q, store[id].topics[i])}

\* C19: GET /presentations/topic/:topic returns the non-deleted records
\* that have a topic containing the queried string as a case-insensitive
\* substring, and no other record.  An answer computed by the store holds
\* only such records; an answer sent after the store found nothing, while
\* no other request is in flight, holds the records that match in the store
\* now.  (Answers sent after a store error are left aside.)
C19_TopicQueryExact ==
  LET a == observed.answer IN
    a.op = "topic" =>
      /\ a.note = "store"
           => /\ a.body # << >>
              /\ \A k \in DOMAIN a.body :
                   /\ ~a.body[k].isDeleted
                   /\ \E i \in DOMAIN a.body[k].topics :
                        RegexMatch(a.q, a.body[k].topics[i])
      /\ (a.note \in {"cache", "none"} /\ \A h \in Handlers : ~Busy(handlers[h]))
           => {a.body[k].id : k \in DOMAIN a.body} = TopicMatches(a.q)

\* viewCount of the stored record of id, 0 when there is none.
StoredViews(db, id) == IF db[id] = None THEN 0 ELSE db[id].viewCount

\* C20: the stored viewCount of a record never decreases, and every GET
\* /presentation/:id with a userId that returned the record has increased
\* it by exactly 1 once the invocation is over: the step that ends an
\* invocation which answered from the cache is the increment, and an
\* invocation that answered from the store has made its increment before.
C20_ViewCountCounts ==
  [][/\ \A id \in Ids : StoredViews(store', id) >= StoredViews(store, id)
     /\ \A h \in Handlers :
          (handlers[h].pc = "getDetached" /\ handlers'[h].pc = "idle")
            => StoredViews(store', handlers[h].id) = StoredViews(store, handlers[h].id) + 1
     /\ \A h \in Handlers :
          (handlers[h].pc = "getInc" /\ handlers'[h].pc = "getInced" /\ ~handlers'[h].failed)
            => StoredViews(store', handlers[h].id) = StoredViews(store, handlers[h].id) + 1]_vars

\* The fields of a record a PUT may set, and the others.
Metadata == {"title", "summary", "author", "topics"}
Fixed == {"id", "slides", "slideTexts", "slideCount", "isPlaceholder",
          "viewCount", "isDeleted"}

\* C21: the store step of a PUT /presentation/:id that finds the record
\* leaves id, slides, slideTexts, slideCount, isPlaceholder, viewCount and
\* isDeleted of the record as they were, leaves every one of title, summary,
\* author and topics that the body does not carry as it was, and leaves the
\* other records alone.
C21_PutChangesOnlySupplied ==
  [][\A h \in Handlers :
       (/\ handlers[h].pc = "idle" /\ handlers'[h].pc = "putUpdated"
        /\ handlers'[h].found # << >>)
         => LET id == handlers'[h].id IN
              /\ \A f \in Fixed : store'[id][f] = store[id][f]
              /\ \A f \in Metadata :
                   handlers'[h].body[f] = << >> => store'[id][f] = store[id][f]
              /\ \A i \in Ids \ {id} : store'[i] = store[i]]_vars

\* C22: a PUT or DELETE whose id is unknown to the store or soft-deleted
\* changes nothing in the store, finds nothing when the store answers, and
\* is then answered 404 with the store, the cache, the topic index and the
\* seen-lists left as they were.
C22_MissChangesNothing ==
  [][\A h \in Handlers :
       LET s == handlers[h]
           t == handlers'[h]
       IN
       /\ (/\ s.pc = "idle" /\ t.pc \in {"putUpdated", "deleteUpdated"}
           /\ FindOneLive(store, t.id) = << >>)
            => /\ ~t.failed => t.found = << >>
               /\ UNCHANGED <<store, presentations, presentationsByTopic,
                              userPresentationHistory>>
       /\ (/\ s.pc \in {"putUpdated", "deleteUpdated"} /\ t.pc = "idle"
           /\ ~s.failed /\ s.found = << >>)
            => /\ observed'.answer.status = 404
               /\ UNCHANGED <<store, presentations, presentationsByTopic,
                              userPresentationHistory>>]_vars

\* A PUT for the soft-deleted record has just been answered 404, and the
\* record has the metadata it was deleted with.
C22_Witness ==
  /\ observed.answer.op = "put" /\ observed.answer.status = 404
  /\ observed.answer.id = OldId /\ store[OldId].isDeleted
  /\ store[OldId].title = GivenTitle /\ store[OldId].topics = <<"AI">>

\* The upload of request r had no file, a file with an extension that is
\* not allowed, or a file over the size limit.
Rejected(r) == conv[r].pc = "done" /\ Has(conv[r].log, "rejected")

\* C23: a /convert request without a file, with a file of another extension
\* than .ppt, .pptx, .key, or with a file over 50 MB is answered once, with
\* status 400, and leaves no record in the store, no cached object, no
\* entry in the topic index and nothing in an output directory.
C23_RejectionIs400 ==
  \A r \in Requests :
    Rejected(r)
      => /\ Len(conv[r].resp) = 1 /\ conv[r].resp[1].status = 400
         /\ store[r] = None /\ r \notin DOMAIN presentations /\ ~Indexed(r)
         /\ presentations = conv[r].before.cache
         /\ presentationsByTopic = conv[r].before.index
         /\ conv[r].dir = EmptyDir

\* slides, slideTexts and slideCount of a result or a record.
SlideData(x) ==
  [slides |-> x.slides, slideTexts |-> x.slideTexts, slideCount |-> x.slideCount]

\* The output directory after the direct export left n images in it.
Exported(n) == [k \in {NativeFile(i) : i \in 1 .. n} |-> RealImage(k.n)]

\* The slide data the request with this id can produce when it is the only
\* one: the renderer is absent, the page loop runs on 1..MaxPages pages, the
\* direct export leaves 1..MaxImages images, or both strategies fail.
AloneSlideData(id) ==
  {SlideData(AbsentResult(AbsentLoop(EmptyWork, id, 1, failW))) : failW \in WriteFailSets}
  \cup UNION {{SlideData(PdfResult(PageLoop(EmptyWork, id, 1, n, outcomes, failW))) :
                 outcomes \in [1 .. n -> PageOutcomes], failW \in WriteFailSets} :
              n \in 1 .. MaxPages}
  \cup UNION {{SlideData(DirectResult(PadIfSingle(
                   RenameLoop([EmptyWork EXCEPT !.dir = Exported(n)], id, 1, n, renameFail),
                   id, n, failW))) :
                 renameFail \in SUBSET (1 .. n), failW \in WriteFailSets} :
              n \in 1 .. MaxImages}
  \cup {SlideData(FallbackResult(FallbackLoop(EmptyWork, id, 1, failW))) :
          failW \in WriteFailSets}

AloneNew == AloneSlideData(NewId)
AloneSecond == AloneSlideData(SecondId)

\* C24: with two /convert requests under way in any interleaving, a record
\* that is in the store under the id of a request holds the slide data that
\* request assembled, every slide url of it names that id, its slides,
\* slideTexts and slideCount are among those the request produces when it
\* runs alone, and once the request is answered 200 the cached object is
\* that record and the id is indexed under its own topics.
C24_ConversionsDoNotCollide ==
  \A r \in Pair :
    /\ store[r] # None
         => /\ store[r] = Document(r, conv[r])
            /\ \A i \in DOMAIN store[r].slides : store[r].slides[i].id = r
            /\ SlideData(store[r]) \in (IF r = NewId THEN AloneNew ELSE AloneSecond)
    /\ Responded(r, 200)
         => /\ store[r] # None /\ r \in DOMAIN presentations
            /\ presentations[r] = store[r]
            /\ \A i \in DOMAIN conv[r].topics :
                 r \in Range(presentationsByTopic[toLowerCase(conv[r].topics[i])])

\* Both requests have been answered 200; the one that arrived later went
\* through the page loop and was committed first.
C24_Witness ==
  /\ Responded(NewId, 200) /\ Responded(SecondId, 200)
  /\ conv[NewId].path = "pdf" /\ conv[NewId].slideCount = 2
  /\ presentationsByTopic["ai"] = <<NewId, SecondId>>

\* C25: GET /user/:userId/unseen/:topic returns exactly the non-deleted
\* records that match the topic and are not on the seen-list of the user
\* (answers sent after a store error are left aside), and GET
\* /user/:userId/seen/:id reports an id seen exactly when POST
\* /user/:userId/seen/:id or GET /presentation/:id?userId= has put it on the
\* list.
C25_UnseenExact ==
  LET a == observed.answer
      seen == SeenBy(userPresentationHistory, a.user)
  IN
    /\ (a.op = "unseen" /\ a.note # "afterError"
        /\ \A h \in Handlers : ~Busy(handlers[h]))
         => {a.body[k].id : k \in DOMAIN a.body} = TopicMatches(a.q) \ seen
    /\ a.op = "unseen" => \A k \in DOMAIN a.body : a.body[k].id \notin seen
    /\ a.op = "seen" => a.body[1].seen = (a.id \in seen)

\* The number of entries e in log.
Count(log, e) == Cardinality({i \in DOMAIN log : log[i] = e})

\* C26: in a /convert request that found the renderer, paginate-then-
\* rasterize is the first strategy attempted; the direct export is attempted
\* only after it, and while it is under way the request holds no slide of
\* the page loop; the terminal placeholder fill is attempted only after the
\* direct export, and then no slide of the record is an exported image; and
\* the strategy that produced the slides of the record is the last one that
\* was attempted.
C26_StrategyOrder ==
  \A r \in Requests :
    LET c == conv[r]
        log == c.log
    IN
    (c.pc # "idle" /\ ~Has(log, "rejected") /\ ~Has(log, "absent"))
      => /\ log[1] = "pdf"
         /\ Has(log, "direct") => Pos(log, "direct") = 2
         /\ Has(log, "terminal") => Pos(log, "terminal") = 3 /\ Has(log, "direct")
         /\ c.pc \in {"jpgExec", "jpgReaddir"}
              => /\ Has(log, "direct") /\ c.path = "none"
                 /\ c.slides = << >> /\ c.slideTexts = << >>
         /\ c.path = "pdf" => ~Has(log, "direct") /\ ~Has(log, "terminal")
         /\ c.path = "direct" => Count(log, "pdf") = 1 /\ ~Has(log, "terminal")
         /\ c.path = "terminal"
              => /\ Count(log, "pdf") = 1 /\ Count(log, "direct") = 1
                 /\ \A i \in DOMAIN c.made : c.made[i].kind # "real"

\* The request has been answered with the slides of the direct export,
\* which ran after the page count of the PDF could not be used.
C26_Witness ==
  \E r \in Requests :
    /\ conv[r].pc = "done" /\ conv[r].path = "direct"
    /\ PdfFile \in DOMAIN conv[r].dir
    /\ Len(conv[r].slides) = 2

\* ---------------------------------------------------------------- C27, C28
\* The page loop of request r has run on the pages whose outcomes are known.
Looped(r) == conv[r].path = "pdf" /\ conv[r].outcomes # << >>

\* The pages of request r.
Pages(r) == 1 .. Len(conv[r].outcomes)

\* Page n of request r has a distinct placeholder: the canonical url, the
\* text of createDistinctPlaceholder for n, and that text in slide-n.jpg
\* whenever the file is there.
HasDistinctPlaceholder(r, n) ==
  /\ conv[r].slides[n] = SlideUrl(r, n)
  /\ conv[r].made[n] = DistinctContent(n)
  /\ conv[r].made[n] # GenericContent(n)
  /\ SlideFile(n) \in DOMAIN conv[r].dir
       => conv[r].dir[SlideFile(n)] = DistinctContent(n)

\* C27 as stated: every page whose rasterization fails, by raising or by
\* returning without the image file, gets a distinct placeholder and the
\* text "Slide n (Error Placeholder)".
C27_AsStated ==
  \A r \in Requests :
    Looped(r) =>
      \A n \in Pages(r) :
        conv[r].outcomes[n] \in {"rasterErr", "noFile"}
          => /\ HasDistinctPlaceholder(r, n)
             /\ conv[r].slideTexts[n] = ErrorText(n)

\* C27 (amended): every page whose rasterization fails gets a distinct
\* placeholder at slide-n.jpg; its text is "Slide n (Error Placeholder)"
\* when the rasterize command or the copy of the image raised, and
\* "Slide n (Placeholder)" when the command returned without the image file.
C27_FailedPagePlaceholder ==
  \A r \in Requests :
    Looped(r) =>
      \A n \in Pages(r) :
        /\ conv[r].outcomes[n] \in {"rasterErr", "copyErr"}
             => /\ HasDistinctPlaceholder(r, n)
                /\ conv[r].slideTexts[n] = ErrorText(n)
        /\ conv[r].outcomes[n] = "noFile"
             => /\ HasDistinctPlaceholder(r, n)
                /\ conv[r].slideTexts[n] = PlaceholderText(n)

\* The loop has run on two pages: the rasterization of one raised, that of
\* the other returned without a file, and both placeholders were written.
C27_Witness ==
  \E r \in Requests :
    /\ Looped(r) /\ conv[r].pc = "saveFind"
    /\ conv[r].outcomes = <<"rasterErr", "noFile">>
    /\ conv[r].dir[SlideFile(1)] = DistinctContent(1)
    /\ conv[r].dir[SlideFile(2)] = DistinctContent(2)
    /\ conv[r].slideTexts = <<ErrorText(1), PlaceholderText(2)>>

\* What the page loop records for the pages of request r when page k
\* succeeds and every other page goes as it went.
HadSucceeded(r, k, failW) ==
  PageLoop([EmptyWork EXCEPT !.dir = WriteFile(EmptyDir, TempDir, OtherFile)],
           r, 1, conv[r].pageCount, [conv[r].outcomes EXCEPT ![k] = "ok"], failW)

\* Page j of request r has the url, text and image of j in w, and the file
\* slide-j.jpg holds the same wherever both have it.
SamePage(r, j, w) ==
  /\ conv[r].slides[j] = w.urls[j]
  /\ conv[r].slideTexts[j] = w.texts[j]
  /\ conv[r].made[j] = w.made[j]
  /\ (SlideFile(j) \in DOMAIN conv[r].dir /\ SlideFile(j) \in DOMAIN w.dir)
       => conv[r].dir[SlideFile(j)] = w.dir[SlideFile(j)]

\* C28: the page loop processes all N pages in order 1..N; a rasterization
\* or text-extraction failure at page k leaves what is recorded for every
\* other page j the same as if page k had succeeded; a text-extraction
\* failure alone keeps the real image of page k and gives it "Slide k".
C28_PagesIndependent ==
  \A r \in Requests :
    Looped(r) =>
      /\ Len(conv[r].slides) = conv[r].pageCount
      /\ Len(conv[r].slideTexts) = conv[r].pageCount
      /\ \A n \in Pages(r) : conv[r].slides[n] = SlideUrl(r, n)
      /\ \A k \in Pages(r) :
           conv[r].outcomes[k] # "ok" =>
             \A j \in Pages(r) \ {k}, failW \in WriteFailSets :
               SamePage(r, j, HadSucceeded(r, k, failW))
      /\ \A k \in Pages(r) :
           conv[r].outcomes[k] = "textErr" =>
             /\ conv[r].made[k] = RealImage(k)
             /\ conv[r].dir[SlideFile(k)] = RealImage(k)
             /\ conv[r].slideTexts[k] = PlainText(k)

\* The loop has run on two pages: the text extraction of the first raised
\* and the second went well.
C28_Witness ==
  \E r \in Requests :
    /\ Looped(r)
    /\ conv[r].outcomes = <<"textErr", "ok">>
    /\ conv[r].slideTexts = <<PlainText(1), ExtractedText(2)>>
    /\ conv[r].made = <<RealImage(1), RealImage(2)>>

\* ---------------------------------------------------------------------- C29
\* The ids of the records of the store that are not deleted.
LiveIds == {id \in Ids : store[id] # None /\ ~store[id].isDeleted}

\* The ids the topic index holds under topic t.
IndexedUnder(t) ==
  IF t \in DOMAIN presentationsByTopic THEN Range(presentationsByTopic[t]) ELSE {}

\* The topic index holds id under t exactly when the record is not deleted
\* and has t, lower-cased, among its topics.
IndexExact ==
  \A t \in {"ai", "ml"}, id \in Ids :
    id \in IndexedUnder(t)
      <=> /\ id \in LiveIds
          /\ \E i \in DOMAIN store[id].topics : toLowerCase(store[id].topics[i]) = t

\* C29: when POST /admin/sync has answered with success and no other request
\* is in flight, the ids of the cache are the ids of the records of the
\* store that are not deleted, and the topic index is exact.
C29_SyncRebuilds ==
  LET a == observed.answer IN
    (a.op = "sync" /\ a.status = 200)
      => /\ DOMAIN presentations = LiveIds
         /\ IndexExact

\* ---------------------------------------------------------------------- C30
\* C30: by the end of every /convert request that took an upload, on every
\* strategy path, the deletion of the uploaded file has been issued and the
\* intermediate PDF of the request is gone from its directory.
C30_ScopedCleanup ==
  \A r \in Requests :
    (conv[r].pc = "done" /\ Accepted(r))
      => /\ conv[r].unlinked
         /\ PdfFile \notin DOMAIN conv[r].dir

\* ---------------------------------------------------------------------- C31
\* Invocation h is a PUT whose store update has been applied by this step.
PutApplied(h) ==
  /\ handlers[h].pc = "idle" /\ handlers'[h].pc = "putUpdated"
  /\ handlers'[h].found # << >>

\* C31: the stored title is the one of the PUT whose store update was
\* applied last: the step that applies the update of a PUT leaves its title
\* in the store and no other step changes the stored title.  When a PUT
\* races with a DELETE, the record stays soft-deleted and unchanged once the
\* delete has been applied, and a PUT whose update the store ran after that
\* is answered 404.
C31_LastWriteWins ==
  [][/\ \A h \in Handlers :
          PutApplied(h) => store'[OldId].title = handlers'[h].body.title[1]
     /\ (\A h \in Handlers : ~PutApplied(h))
          => store'[OldId].title = store[OldId].title
     /\ store[OldId].isDeleted => store'[OldId] = store[OldId]
     /\ \A h \in Handlers :
          (handlers[h].pc = "putUpdated" /\ handlers'[h].pc = "idle"
           /\ ~handlers[h].failed /\ handlers[h].found = << >>)
            => /\ store[OldId].isDeleted
               /\ observed'.answer.op = "put" /\ observed'.answer.status = 404]_vars

\* Two PUT requests with different titles have both had their update
\* applied and wait for their answers; the store holds the title of one.
C31_Witness ==
  /\ handlers["h1"].pc = "putUpdated" /\ handlers["h1"].found # << >>
  /\ handlers["h2"].pc = "putUpdated" /\ handlers["h2"].found # << >>
  /\ handlers["h1"].body.title = <<"T1">> /\ handlers["h2"].body.title = <<"T2">>
  /\ store[OldId].title = "T2"
  /\ handlers["h1"].found[1].title = "T1"

\* ---------------------------------------------------------------------- C32
\* C32: DELETE /presentation/:id answers with success only if the record of
\* the id in the store now has isDeleted = true; a DELETE whose store update
\* failed, which leaves the record unmarked, is answered with an error.
C32_SuccessOnlyIfMarked ==
  LET a == observed.answer IN
    (a.op = "delete" /\ a.status = 200) => Deleted(a.id)

\* ---------------------------------------------------------------------- C33
\* C33: once a DELETE /presentation/:id that ran next to reads has answered
\* with success and every request has completed, the cache and the topic
\* index do not hold the deleted id, and a GET /presentation/:id that
\* arrives then is answered 404.
C33_DeleteSurvivesReads ==
  LET a == observed.answer IN
    (\A h \in Handlers : ~Busy(handlers[h]))
      => /\ \A id \in Ids :
              Deleted(id) => id \notin DOMAIN presentations /\ ~Indexed(id)
         /\ (a.op = "get" /\ a.note = "cache") => ~Deleted(a.id)

\* ---------------------------------------------------------------------- C34
\* C34: in every reachable state each list of the topic index holds any
\* presentation id at most once.
C34_IndexListsHaveNoDuplicates ==
  \A t \in DOMAIN presentationsByTopic : PairwiseDistinct(presentationsByTopic[t])

\* ---------------------------------------------------------------------- C35
\* C35: when /convert has sent a success response, every url in the slides
\* of the committed record names a file that is in the output directory of
\* the presentation.
C35_SlidesExist ==
  \A r \in Requests :
    (conv[r].pc = "done" /\ Committed(r))
      => \A i \in DOMAIN store[r].slides :
           /\ store[r].slides[i].id = r
           /\ store[r].slides[i].file \in DOMAIN conv[r].dir

\* ---------------------------------------------------------------------- C36
\* C36: when /convert has answered 500 for an id, the store holds no record
\* with that id.
C36_FailedLeavesNoRecord ==
  \A r \in Requests :
    (conv[r].pc = "done" /\ Responded(r, 500)) => store[r] = None

\* ---------------------------------------------------------------------- C37
\* C37: whenever no request is in flight, every object in the cache has the
\* title, summary, author and topics of the record the store holds for its
\* id.
C37_CacheAgreesWithStore ==
  (\A h \in Handlers : ~Busy(handlers[h]))
    => \A id \in DOMAIN presentations :
         /\ store[id] # None
         /\ \A f \in Metadata : presentations[id][f] = store[id][f]

\* ---------------------------------------------------------------------- C38
\* The status GET /presentation/:id answers for id when it arrives with this
\* cache and the store answers the lookup from db (server.js:925-1009): a
\* cached object is returned at once, otherwise the live record of the
\* store, otherwise 404.
GetStatus(cache, db, id) ==
  IF id \in DOMAIN cache THEN 200
  ELSE IF FindOneLive(db, id) # << >> THEN 200 ELSE 404

\* C38: GET /clear-cache changes nothing in the store, and in every state
\* with no request in flight the status GET /presentation/:id answers for an
\* id is the same with the cache as it is and with the cache cleared.
C38_CacheNeverDecides ==
  /\ []((\A h \in Handlers : ~Busy(handlers[h]))
          => \A id \in Ids :
               GetStatus(presentations, store, id) = GetStatus(<< >>, store, id))
  /\ [][observed'.answer.op = "clear" => store' = store]_vars

\* ---------------------------------------------------------------------- C39
\* C39: in every reachable state the seen list of each user holds any id at
\* most once, and when DELETE /presentation/:id answers with success the
\* deleted id is in the seen list of no user.
C39_SeenListsClean ==
  LET a == observed.answer IN
    /\ \A u \in DOMAIN userPresentationHistory :
         PairwiseDistinct(userPresentationHistory[u])
    /\ (a.op = "delete" /\ a.status = 200)
         => \A u \in DOMAIN userPresentationHistory :
              a.id \notin Range(userPresentationHistory[u])

\* A DELETE has just answered with success for the record a user had seen:
\* the list of the user is there and the id has been taken out of it.
C39_Witness ==
  /\ observed.answer.op = "delete" /\ observed.answer.status = 200
  /\ observed.answer.id = OldId
  /\ "u1" \in DOMAIN userPresentationHistory
  /\ userPresentationHistory["u1"] = << >>

====
